---------------------------- MODULE Spec2Model ----------------------------
(***************************************************************************)
(* Pivot ITM trading system: the decision-and-resilience engine.           *)
(*                                                                         *)
(* The module globals of part1_config_and_utils.py are the record          *)
(* `config`; the functions of part1/part2/part3 are operators of the same  *)
(* name that take the machine state `m` and return the machine state after *)
(* the call.  One action, `Tick`, is one iteration of run_trading_loop.    *)
(*                                                                         *)
(* Prices (spot, pivot, option premium) are integers in hundredths of a    *)
(* rupee, so that the two-decimal rounding of the code is integer          *)
(* rounding here.  Strikes are in whole rupees, as in the catalog.         *)
(*                                                                         *)
(* Not modelled: logging, the heartbeat timestamps, bias_lock_date and     *)
(* bias_candle_data (written, never read by a decision), entry_time and    *)
(* segment of the position, and the dashboard sink (shared_state.py),      *)
(* which the control loop only writes to.                                  *)
(***************************************************************************)
EXTENDS Integers, Sequences, FiniteSets, TLC

VARIABLES
    config,        \* module globals of part1_config_and_utils.py
    clock,         \* wall clock, in steps of SecPerStep seconds
    isTradingDay,  \* is_trading_day() of the current date
    ticked,        \* the loop has run an iteration during this clock step
    pc,            \* "boot" (before main), "loop", "stopped"
    journal_rows,  \* number of rows in trade_journal.csv
    last_known,    \* history: latest option price fetched for the position
    last           \* observation: what the last step did

vars == <<config, clock, isTradingDay, ticked, pc, journal_rows, last_known, last>>

-----------------------------------------------------------------------------
(* Bounds of the model *)

MaxDay == 1
StepsPerDay == 5
SecPerStep == 300
\* the exercise of the breaker and the fetches: its clock and failure counts
MaxCallClock == 3
MaxFailures == 7
\* the strike selection on its own: spot prices from 18499.00 in steps of
\* half a rupee
MaxStrikeSteps == 204
\* the sink on its own: calls of the control loop and requests of the reader
MaxSinkCalls == 3
MaxSinkReads == 2

-----------------------------------------------------------------------------
(* Configuration, part1_config_and_utils.py lines 30-58 *)

None == -1

NIFTY_LOT_SIZE == 65
TRADE_LOTS == 1
MAX_DAILY_TRADES == 2
PIVOT_BUFFER_POINTS == 2500
STOP_LOSS_PERCENT == 10
PROFIT_TARGET_PERCENT == 10
\* clock times, as the step of the day at which they are reached
BIAS_CANDLE_END == 1
ENTRY_CUTOFF == 3
EOD_EXIT == 3
MAX_RETRIES == 3
CIRCUIT_BREAKER_FAILURES == 5
CIRCUIT_BREAKER_TIMEOUT_SEC == 300
MIN_OPTION_PRICE == 100
MAX_OPTION_PRICE == 100000
MIN_SPOT_PRICE == 1500000
MAX_SPOT_PRICE == 3000000

\* a transport error of an upstream call (an exception, or a missing key)
ERR == -2

NoPosition == [none |-> TRUE]

-----------------------------------------------------------------------------
(* The clock *)

MaxClock == (MaxDay + 1) * StepsPerDay - 1
Today == clock \div StepsPerDay
Tod == clock % StepsPerDay
TimeNow == clock * SecPerStep

\* round(n / d) to the nearest integer, ties to even, for n >= 0, d > 0
RoundDiv(n, d) ==
    LET q == n \div d
        r == n % d
    IN  IF 2 * r < d THEN q
        ELSE IF 2 * r > d THEN q + 1
        ELSE IF q % 2 = 0 THEN q ELSE q + 1

-----------------------------------------------------------------------------
(* CircuitBreaker, part1_config_and_utils.py lines 95-130 *)

CircuitBreaker == [failure_count |-> 0, opened_at |-> None]

record_failure(b) ==
    LET n == b.failure_count + 1
    IN  [failure_count |-> n,
         opened_at |-> IF n >= CIRCUIT_BREAKER_FAILURES THEN TimeNow ELSE b.opened_at]

\* mutant: a success resets the counter and keeps the stamp
record_success_keeps_opened_at(b) == [failure_count |-> 0, opened_at |-> b.opened_at]

record_success(b) == [failure_count |-> 0, opened_at |-> None]

\* mutant: the breaker closes when exactly the timeout has elapsed
is_open_at_boundary(b) ==
    IF b.opened_at = None
    THEN [open |-> FALSE, breaker |-> b]
    ELSE IF TimeNow - b.opened_at >= CIRCUIT_BREAKER_TIMEOUT_SEC
         THEN [open |-> FALSE, breaker |-> [failure_count |-> 0, opened_at |-> None]]
         ELSE [open |-> TRUE, breaker |-> b]

\* [open, breaker]: the answer of is_open() and the breaker after the call
is_open(b) ==
    IF b.opened_at = None
    THEN [open |-> FALSE, breaker |-> b]
    ELSE IF TimeNow - b.opened_at > CIRCUIT_BREAKER_TIMEOUT_SEC
         THEN [open |-> FALSE, breaker |-> [failure_count |-> 0, opened_at |-> None]]
         ELSE [open |-> TRUE, breaker |-> b]


-----------------------------------------------------------------------------
(* The machine state threaded through the calls of one loop iteration:     *)
(* c the globals, e what the iteration has done so far, rows the journal   *)
(* file, lk the latest option price fetched, ret the last return value.    *)

NoSnap == [none |-> TRUE]

EmptyEff ==
    [branch |-> "none", didReset |-> FALSE, raised |-> "no",
     optReads |-> <<>>, spotReads |-> <<>>,
     biasFetches |-> 0, biasCandles |-> <<>>, resolves |-> 0,
     buys |-> <<>>, sells |-> <<>>, journaled |-> <<>>,
     entryPre |-> NoSnap]

M0 == [c |-> config, e |-> EmptyEff, rows |-> journal_rows, lk |-> last_known, ret |-> None]

Br(m, b) == [m EXCEPT !.e.branch = b]

-----------------------------------------------------------------------------
(* Upstream responses.  A script is what groww.get_ltp answers on the     *)
(* successive attempts of one fetch: ERR, or a price.                      *)

OptPrices == {9000, 10000, 10400, 11000}
OptBad == {ERR, 50, 100100}
\* the same answer on every attempt, or failures of each kind and then a price
OptScripts ==
    {[i \in 1..MAX_RETRIES |-> r] : r \in OptPrices \cup OptBad}
    \cup {[i \in 1..MAX_RETRIES |-> IF i = 1 THEN ERR ELSE IF i < MAX_RETRIES THEN 50 ELSE 10000]}

SpotPrices == {1851200, 1862500}
SpotBad == {ERR, 1000000}
SpotScripts ==
    {[i \in 1..MAX_RETRIES |-> r] : r \in SpotPrices \cup SpotBad}
    \cup {[i \in 1..MAX_RETRIES |-> IF i = 1 THEN 1000000 ELSE IF i < MAX_RETRIES THEN ERR ELSE 1851200]}

-----------------------------------------------------------------------------
(* fetch_spot_price, part2_strategy_logic.py lines 161-200 *)

\* mutant: an out-of-range answer on the last attempt records no failure
RECURSIVE SpotAttempt_no_final_failure(_, _, _)
SpotAttempt_no_final_failure(b, script, attempt) ==
    LET spot == script[attempt]
    IN  IF spot # ERR /\ MIN_SPOT_PRICE <= spot /\ spot <= MAX_SPOT_PRICE
        THEN [value |-> spot, breaker |-> record_success(b), calls |-> attempt,
              recorded |-> <<"success">>]
        ELSE IF attempt < MAX_RETRIES
             THEN SpotAttempt_no_final_failure(b, script, attempt + 1)
             ELSE IF spot = ERR
             THEN [value |-> None, breaker |-> record_failure(b), calls |-> attempt,
                   recorded |-> <<"failure">>]
             ELSE [value |-> None, breaker |-> b, calls |-> attempt, recorded |-> <<>>]

\* mutant: an in-range answer is replaced by a later in-range answer
RECURSIVE SpotAttempt_last_value(_, _, _)
SpotAttempt_last_value(b, script, attempt) ==
    LET spot == script[attempt]
        InRange(x) == x # ERR /\ MIN_SPOT_PRICE <= x /\ x <= MAX_SPOT_PRICE
    IN  IF InRange(spot) /\ (attempt = MAX_RETRIES \/ ~InRange(script[attempt + 1]))
        THEN [value |-> spot, breaker |-> record_success(b), calls |-> attempt,
              recorded |-> <<"success">>]
        ELSE IF attempt < MAX_RETRIES
             THEN SpotAttempt_last_value(b, script, attempt + 1)
             ELSE [value |-> None, breaker |-> record_failure(b), calls |-> attempt,
                   recorded |-> <<"failure">>]

RECURSIVE SpotAttempt(_, _, _)
SpotAttempt(b, script, attempt) ==
    LET spot == script[attempt]
    IN  IF spot # ERR /\ MIN_SPOT_PRICE <= spot /\ spot <= MAX_SPOT_PRICE
        THEN [value |-> spot, breaker |-> record_success(b), calls |-> attempt,
              recorded |-> <<"success">>]
        ELSE IF attempt < MAX_RETRIES
             THEN SpotAttempt(b, script, attempt + 1)
             ELSE [value |-> None, breaker |-> record_failure(b), calls |-> attempt,
                   recorded |-> <<"failure">>]

\* mutant: the breaker is not asked before the first attempt
fetch_spot_price_no_breaker(b, script) == SpotAttempt(b, script, 1)

fetch_spot_price(b, script) ==
    LET o == is_open(b)
    IN  IF o.open
        THEN [value |-> None, breaker |-> o.breaker, calls |-> 0, recorded |-> <<>>]
        ELSE SpotAttempt(o.breaker, script, 1)

(* fetch_option_price, part2_strategy_logic.py lines 203-243 *)

\* mutant: the plausibility range is not checked
RECURSIVE OptionAttempt_no_range(_, _, _)
OptionAttempt_no_range(b, script, attempt) ==
    LET price == script[attempt]
    IN  IF price # ERR
        THEN [value |-> price, breaker |-> record_success(b), calls |-> attempt,
              recorded |-> <<"success">>]
        ELSE IF attempt < MAX_RETRIES
             THEN OptionAttempt_no_range(b, script, attempt + 1)
             ELSE [value |-> None, breaker |-> record_failure(b), calls |-> attempt,
                   recorded |-> <<"failure">>]

\* mutant: every failed attempt is recorded in the breaker
RECURSIVE OptionAttempt_failure_per_attempt(_, _, _)
OptionAttempt_failure_per_attempt(b, script, attempt) ==
    LET price == script[attempt]
    IN  IF price # ERR /\ MIN_OPTION_PRICE <= price /\ price <= MAX_OPTION_PRICE
        THEN [value |-> price, breaker |-> record_success(b), calls |-> attempt,
              recorded |-> IF attempt = 1 THEN <<"success">> ELSE <<"failure", "success">>]
        ELSE IF attempt < MAX_RETRIES
             THEN OptionAttempt_failure_per_attempt(record_failure(b), script, attempt + 1)
             ELSE [value |-> None, breaker |-> record_failure(b), calls |-> attempt,
                   recorded |-> <<"failure">>]

RECURSIVE OptionAttempt(_, _, _)
OptionAttempt(b, script, attempt) ==
    LET price == script[attempt]
    IN  IF price # ERR /\ MIN_OPTION_PRICE <= price /\ price <= MAX_OPTION_PRICE
        THEN [value |-> price, breaker |-> record_success(b), calls |-> attempt,
              recorded |-> <<"success">>]
        ELSE IF attempt < MAX_RETRIES
             THEN OptionAttempt(b, script, attempt + 1)
             ELSE [value |-> None, breaker |-> record_failure(b), calls |-> attempt,
                   recorded |-> <<"failure">>]

\* mutant: the breaker is not asked before the first attempt
fetch_option_price_no_breaker(b, script) == OptionAttempt(b, script, 1)

fetch_option_price(b, script) ==
    LET o == is_open(b)
    IN  IF o.open
        THEN [value |-> None, breaker |-> o.breaker, calls |-> 0, recorded |-> <<>>]
        ELSE OptionAttempt(o.breaker, script, 1)

\* the call sites: the fetch applied to the module's breaker
CallFetchSpot(m, script) ==
    LET r == fetch_spot_price(m.c.spot_price_breaker, script)
    IN  [m EXCEPT !.c.spot_price_breaker = r.breaker,
                  !.e.spotReads = Append(@, r.value),
                  !.ret = r.value]

\* mutant: the option fetch is guarded by the breaker of the spot fetch
CallFetchOption_spot_breaker(m, script) ==
    LET r == fetch_option_price(m.c.spot_price_breaker, script)
    IN  [m EXCEPT !.c.spot_price_breaker = r.breaker,
                  !.e.optReads = Append(@, r.value),
                  !.lk = IF r.value # None THEN r.value ELSE @,
                  !.ret = r.value]

CallFetchOption(m, script) ==
    LET r == fetch_option_price(m.c.option_price_breaker, script)
    IN  [m EXCEPT !.c.option_price_breaker = r.breaker,
                  !.e.optReads = Append(@, r.value),
                  !.lk = IF r.value # None THEN r.value ELSE @,
                  !.ret = r.value]

-----------------------------------------------------------------------------
(* Historical daily candles and the pivot,                                 *)
(* fetch_and_calculate_pivot, part2_strategy_logic.py lines 90-154         *)

Candle(d, h, l, c) == [date |-> d, high |-> h, low |-> l, close |-> c]

\* what get_historical_candle_data may answer on date d
DailyFeeds(d) ==
    { [ok |-> FALSE, candles |-> <<>>],
      [ok |-> TRUE, candles |-> <<>>],
      [ok |-> TRUE, candles |-> <<Candle(d, 1900000, 1880000, 1890000)>>],
      [ok |-> TRUE, candles |-> <<Candle(d - 1, 1860000, 1840000, 1850000)>>],
      [ok |-> TRUE, candles |-> <<Candle(d, 1900000, 1880000, 1890000),
                                  Candle(d - 2, 1860000, 1840000, 1850000),
                                  Candle(d - 1, 1870000, 1850000, 1860001)>>] }

\* mutant: the candle of the running day counts as a completed day
fetch_and_calculate_pivot_with_today(feed) ==
    IF ~feed.ok \/ feed.candles = <<>>
    THEN None
    ELSE LET completed_days == {i \in DOMAIN feed.candles : feed.candles[i].date <= Today}
         IN  IF completed_days = {}
             THEN None
             ELSE LET i == CHOOSE j \in completed_days :
                               \A k \in completed_days :
                                   feed.candles[k].date <= feed.candles[j].date
                      prev_day == feed.candles[i]
                  IN  RoundDiv(prev_day.high + prev_day.low + prev_day.close, 3)

fetch_and_calculate_pivot(feed) ==
    IF ~feed.ok \/ feed.candles = <<>>
    THEN None
    ELSE LET completed_days == {i \in DOMAIN feed.candles : feed.candles[i].date < Today}
         IN  IF completed_days = {}
             THEN None
             ELSE LET i == CHOOSE j \in completed_days :
                               \A k \in completed_days :
                                   feed.candles[k].date <= feed.candles[j].date
                      prev_day == feed.candles[i]
                  IN  RoundDiv(prev_day.high + prev_day.low + prev_day.close, 3)

-----------------------------------------------------------------------------
(* The instrument catalog, load_instrument_data,                           *)
(* part1_config_and_utils.py lines 419-430                                 *)

Row(sym, seg, exp, strike, type, lot, buy) ==
    [trading_symbol |-> sym, underlying_symbol |-> "NIFTY", segment |-> seg,
     expiry_date |-> exp, strike_price |-> strike, instrument_type |-> type,
     lot_size |-> lot, buy_allowed |-> buy]

\* what get_all_instruments may answer on date d
Catalogs(d) ==
    { [ok |-> FALSE, rows |-> <<>>],
      [ok |-> TRUE, rows |->
          <<Row("NIFTY-I", "CASH", d + 2, 18500, "CE", NIFTY_LOT_SIZE, 1),
            Row("CE18400", "FNO", d + 2, 18400, "CE", NIFTY_LOT_SIZE, 1),
            Row("CE18500", "FNO", d + 2, 18500, "CE", NIFTY_LOT_SIZE, 1),
            Row("PE18600", "FNO", d + 2, 18600, "PE", NIFTY_LOT_SIZE, 1),
            Row("PE18700F", "FNO", d + 9, 18700, "PE", NIFTY_LOT_SIZE, 1)>>],
      [ok |-> TRUE, rows |->
          <<Row("CE18500L", "FNO", d + 1, 18500, "CE", NIFTY_LOT_SIZE + 10, 1),
            Row("CE18300", "FNO", d + 1, 18300, "CE", NIFTY_LOT_SIZE, 1),
            Row("PE18600X", "FNO", d + 1, 18600, "PE", NIFTY_LOT_SIZE, 0)>>],
      [ok |-> TRUE, rows |->
          <<Row("CE18500F", "FNO", d + 8, 18500, "CE", NIFTY_LOT_SIZE, 1),
            Row("PE18600P", "FNO", d - 1, 18600, "PE", NIFTY_LOT_SIZE, 1)>>] }

\* sys.exit(1) when the catalog cannot be loaded
load_instrument_data(m, load) ==
    IF ~load.ok
    THEN [m EXCEPT !.e.raised = "exit"]
    ELSE LET IsFno(r) == r.segment = "FNO"
         IN  [m EXCEPT !.c.instruments_data = SelectSeq(load.rows, IsFno)]

-----------------------------------------------------------------------------
(* reset_daily_state, part2_strategy_logic.py lines 28-87 *)

\* mutant: the reset forgets the open position
ClearDailyState_keep_position(m) ==
    [m EXCEPT !.c.executed_trades_count = 0,
              !.c.daily_bias = "None",
              !.c.spot_price_breaker = record_success(@),
              !.c.option_price_breaker = record_success(@),
              !.c.instrument_lookup_cache = {},
              !.e.didReset = TRUE]

\* mutant: a breaker that is open stays open until its cooldown has elapsed
ClearDailyState_open_breakers_wait(m) ==
    [m EXCEPT !.c.executed_trades_count = 0,
              !.c.current_position = NoPosition,
              !.c.daily_bias = "None",
              !.c.spot_price_breaker = is_open(@).breaker,
              !.c.option_price_breaker = is_open(@).breaker,
              !.c.instrument_lookup_cache = {},
              !.e.didReset = TRUE]

\* lines 47-59: reset all daily state
ClearDailyState(m) ==
    [m EXCEPT !.c.executed_trades_count = 0,
              !.c.current_position = NoPosition,
              !.c.daily_bias = "None",
              !.c.spot_price_breaker = record_success(@),
              !.c.option_price_breaker = record_success(@),
              !.c.instrument_lookup_cache = {},
              !.e.didReset = TRUE]

\* mutant: the pivot is computed again on a date already reset
reset_daily_state_refetch_pivot(m, load, feed) ==
    IF m.c.last_trading_date = Today
    THEN [m EXCEPT !.c.daily_pivot_point = fetch_and_calculate_pivot(feed)]
    ELSE LET m1 == ClearDailyState(m)
             m2 == load_instrument_data(m1, load)
         IN  IF m2.e.raised # "no"
             THEN m2
             ELSE [m2 EXCEPT !.c.daily_pivot_point = fetch_and_calculate_pivot(feed),
                             !.c.last_trading_date = Today]

\* mutant: the reset does not look at the date of the last reset
reset_daily_state_no_date_check(m, load, feed) ==
    LET m1 == ClearDailyState(m)
        m2 == load_instrument_data(m1, load)
    IN  IF m2.e.raised # "no"
        THEN m2
        ELSE [m2 EXCEPT !.c.daily_pivot_point = fetch_and_calculate_pivot(feed),
                        !.c.last_trading_date = Today]

reset_daily_state(m, load, feed) ==
    IF m.c.last_trading_date = Today
    THEN m
    ELSE LET m1 == ClearDailyState(m)
             m2 == load_instrument_data(m1, load)
         IN  IF m2.e.raised # "no"
             THEN m2
             ELSE [m2 EXCEPT !.c.daily_pivot_point = fetch_and_calculate_pivot(feed),
                             !.c.last_trading_date = Today]

-----------------------------------------------------------------------------
(* determine_daily_bias and get_first_5min_candle,                         *)
(* part2_strategy_logic.py lines 250-358                                   *)

\* what the 5-minute candle request may answer: nothing yet, or a close
NoCandle == [ok |-> FALSE, close |-> None]

FirstCandles ==
    {NoCandle}
    \cup {[ok |-> TRUE, close |-> c] : c \in {1845000, 1850000, 1860000, 1865000}}

\* mutant: a bias that is already set is determined again
determine_daily_bias_no_lock(m, first_candle) ==
    IF m.c.daily_pivot_point = None
    THEN m
    ELSE IF Tod < BIAS_CANDLE_END
    THEN m
    ELSE LET m1 == [m EXCEPT !.e.biasFetches = @ + 1,
                             !.e.biasCandles = Append(@, first_candle)]
         IN  IF ~first_candle.ok
             THEN m1
             ELSE IF first_candle.close > m.c.daily_pivot_point
             THEN [m1 EXCEPT !.c.daily_bias = "BULLISH"]
             ELSE IF first_candle.close < m.c.daily_pivot_point
             THEN [m1 EXCEPT !.c.daily_bias = "BEARISH"]
             ELSE [m1 EXCEPT !.c.daily_bias = "NEUTRAL"]

\* mutant: a close equal to the pivot is BULLISH
determine_daily_bias_tie_bullish(m, first_candle) ==
    IF m.c.daily_bias # "None"
    THEN m
    ELSE IF m.c.daily_pivot_point = None
    THEN m
    ELSE IF Tod < BIAS_CANDLE_END
    THEN m
    ELSE LET m1 == [m EXCEPT !.e.biasFetches = @ + 1,
                             !.e.biasCandles = Append(@, first_candle)]
         IN  IF ~first_candle.ok
             THEN m1
             ELSE IF first_candle.close >= m.c.daily_pivot_point
             THEN [m1 EXCEPT !.c.daily_bias = "BULLISH"]
             ELSE [m1 EXCEPT !.c.daily_bias = "BEARISH"]

determine_daily_bias(m, first_candle) ==
    IF m.c.daily_bias # "None"
    THEN m
    ELSE IF m.c.daily_pivot_point = None
    THEN m
    ELSE IF Tod < BIAS_CANDLE_END
    THEN m
    ELSE LET m1 == [m EXCEPT !.e.biasFetches = @ + 1,
                             !.e.biasCandles = Append(@, first_candle)]
         IN  IF ~first_candle.ok
             THEN m1
             ELSE IF first_candle.close > m.c.daily_pivot_point
             THEN [m1 EXCEPT !.c.daily_bias = "BULLISH"]
             ELSE IF first_candle.close < m.c.daily_pivot_point
             THEN [m1 EXCEPT !.c.daily_bias = "BEARISH"]
             ELSE [m1 EXCEPT !.c.daily_bias = "NEUTRAL"]

(* is_in_pivot_zone, part2_strategy_logic.py lines 361-391 *)

is_in_pivot_zone(spot, pivot) ==
    LET lower == pivot - PIVOT_BUFFER_POINTS
        upper == pivot + PIVOT_BUFFER_POINTS
    IN  lower <= spot /\ spot <= upper

(* calculate_itm_strike, part2_strategy_logic.py lines 394-405.            *)
(* spot is in hundredths: spot // 100 in rupees is spot \div 10000 here.   *)

calculate_itm_strike(spot, direction) ==
    IF direction = "CALL" THEN (spot \div 10000) * 100
    ELSE IF direction = "PUT" THEN ((spot + 9900) \div 10000) * 100
    ELSE None

(* get_nearest_valid_expiry, part2_strategy_logic.py lines 408-434 *)

get_nearest_valid_expiry(instruments_data, underlying) ==
    LET df == {i \in DOMAIN instruments_data :
                  /\ instruments_data[i].underlying_symbol = underlying
                  /\ instruments_data[i].segment = "FNO"}
        weekly_expiries == {d \in {instruments_data[i].expiry_date : i \in df} :
                               d >= Today /\ d - Today <= 7}
    IN  IF weekly_expiries = {}
        THEN None
        ELSE CHOOSE d \in weekly_expiries : \A o \in weekly_expiries : d <= o

(* find_option_instrument, part2_strategy_logic.py lines 441-500.          *)
(* Among rows at the same distance from the strike the first in catalog    *)
(* order is taken.                                                         *)

NoInstrument == [none |-> TRUE]

Abs(x) == IF x < 0 THEN 0 - x ELSE x

CacheKey(underlying, expiry, strike, option_type) == <<underlying, expiry, strike, option_type>>

\* mutant: the cache is never found to hold the key
Cached_never(cache, cache_key) == {}

\* lines 445-448: the entries of the cache under the key
Cached(cache, cache_key) == {x \in cache : x.key = cache_key}

\* lines 454-470: the rows of the catalog the search is made in
Filtered(data, underlying, expiry, option_type) ==
    {i \in DOMAIN data :
        /\ data[i].underlying_symbol = underlying
        /\ data[i].expiry_date = expiry
        /\ data[i].instrument_type = option_type
        /\ data[i].buy_allowed = 1
        /\ data[i].strike_price # None}

\* lines 476-478: the row whose strike is closest to the strike asked for
Nearest(data, filtered, strike) ==
    CHOOSE i \in filtered :
        \A j \in filtered :
            \/ Abs(data[i].strike_price - strike) < Abs(data[j].strike_price - strike)
            \/ /\ Abs(data[i].strike_price - strike) = Abs(data[j].strike_price - strike)
               /\ i <= j

\* mutant: a contract of any lot size is accepted
LotSizeMatches_any(row) == TRUE

\* line 480: the lot size of the contract is the configured one
LotSizeMatches(row) == row.lot_size = NIFTY_LOT_SIZE

find_option_instrument(m, underlying, expiry, strike, option_type) ==
    LET cache_key == CacheKey(underlying, expiry, strike, option_type)
        cached == Cached(m.c.instrument_lookup_cache, cache_key)
        data == m.c.instruments_data
        filtered == Filtered(data, underlying, expiry, option_type)
        m1 == [m EXCEPT !.e.resolves = @ + 1]
    IN  IF cached # {}
        THEN [m1 EXCEPT !.ret = (CHOOSE x \in cached : TRUE).value]
        ELSE IF filtered = {}
        THEN [m1 EXCEPT !.ret = NoInstrument]
        ELSE LET nearest == data[Nearest(data, filtered, strike)]
                 result == [symbol |-> nearest.trading_symbol, segment |-> nearest.segment,
                            lot_size |-> nearest.lot_size, strike |-> nearest.strike_price]
             IN  IF ~LotSizeMatches(nearest)
                 THEN [m1 EXCEPT !.ret = NoInstrument]
                 ELSE [m1 EXCEPT !.c.instrument_lookup_cache = @ \cup {[key |-> cache_key, value |-> result]},
                                 !.ret = result]

-----------------------------------------------------------------------------
(* Position management, part3_integrated.py lines 42-285 *)

calculate_position_size(option_price) ==
    IF option_price <= 0 THEN 0 ELSE NIFTY_LOT_SIZE * TRADE_LOTS

\* mutant: the daily cap is not checked
can_enter_trade_no_cap(c) == c.current_position = NoPosition

can_enter_trade(c) ==
    IF c.executed_trades_count >= MAX_DAILY_TRADES
    THEN FALSE
    ELSE IF c.current_position # NoPosition
    THEN FALSE
    ELSE TRUE

\* the globals an entry may touch, as they are when enter_position is called
Snapshot(c) ==
    [executed_trades_count |-> c.executed_trades_count,
     current_position |-> c.current_position,
     spot_price_breaker |-> c.spot_price_breaker,
     option_price_breaker |-> c.option_price_breaker]

\* abs(confirm_price - option_price) / option_price > 0.05
Unstable(option_price, confirm_price) ==
    100 * Abs(confirm_price - option_price) > 5 * option_price

\* mutant: the divergence of the two reads is not checked
PriceUnstableOrInvalid_no_divergence(option_price, confirm_price) ==
    \/ confirm_price = None
    \/ option_price = None
    \/ option_price <= 0
    \/ confirm_price <= 0

\* lines 92-98: the two reads do not allow an entry
PriceUnstableOrInvalid(option_price, confirm_price) ==
    \/ confirm_price = None
    \/ option_price = None
    \/ option_price <= 0
    \/ confirm_price <= 0
    \/ Unstable(option_price, confirm_price)

\* lines 88-172: the entry once can_enter_trade has allowed it
\* line 123
ProfitTargetFor(option_price) ==
    RoundDiv(option_price * (100 + PROFIT_TARGET_PERCENT), 100)

\* mutant: the stop loss is set above the entry price
StopLossFor_above(option_price) ==
    RoundDiv(option_price * (100 + STOP_LOSS_PERCENT), 100)

\* line 124
StopLossFor(option_price) ==
    RoundDiv(option_price * (100 - STOP_LOSS_PERCENT), 100)

EnterAllowed(m0, direction, symbol, pivot, script1, script2) ==
    LET m1 == CallFetchOption(m0, script1)
        option_price == m1.ret
        m2 == CallFetchOption(m1, script2)
        confirm_price == m2.ret
    IN  IF PriceUnstableOrInvalid(option_price, confirm_price)
        THEN m2
        ELSE LET price == confirm_price
                 qty == calculate_position_size(price)
                 invested == price * qty
                 profit_target == ProfitTargetFor(price)
                 stop_loss == StopLossFor(price)
             IN  IF qty # NIFTY_LOT_SIZE * TRADE_LOTS
                 THEN m2
                 ELSE IF qty <= 0
                 THEN m2
                 ELSE [m2 EXCEPT
                         !.e.buys = Append(@, [symbol |-> symbol, quantity |-> qty,
                                               price |-> price]),
                         !.c.executed_trades_count = @ + 1,
                         !.c.current_position =
                             [symbol |-> symbol, direction |-> direction,
                              entry_price |-> price, quantity |-> qty,
                              invested |-> invested,
                              profit_target |-> profit_target,
                              stop_loss |-> stop_loss, pivot |-> pivot]]

\* mutant: the option price is fetched before can_enter_trade is asked
enter_position_fetch_first(m, direction, symbol, pivot, script1, script2) ==
    LET m0 == [m EXCEPT !.e.entryPre = Snapshot(m.c)]
    IN  IF ~can_enter_trade(m0.c)
        THEN CallFetchOption(m0, script1)
        ELSE EnterAllowed(m0, direction, symbol, pivot, script1, script2)

enter_position(m, direction, symbol, pivot, script1, script2) ==
    LET m0 == [m EXCEPT !.e.entryPre = Snapshot(m.c)]
    IN  IF ~can_enter_trade(m0.c)
        THEN m0
        ELSE EnterAllowed(m0, direction, symbol, pivot, script1, script2)

\* journal_ok: whether the append to trade_journal.csv succeeds; when it
\* raises, the exception leaves exit_position before the position is cleared
exit_position(m, exit_price, reason, journal_ok) ==
    IF m.c.current_position = NoPosition
    THEN m
    ELSE LET pos == m.c.current_position
             m1 == [m EXCEPT !.e.sells = Append(@, [symbol |-> pos.symbol,
                                                    quantity |-> pos.quantity,
                                                    price |-> exit_price,
                                                    reason |-> reason])]
             pnl == (exit_price - pos.entry_price) * pos.quantity
         IN  IF ~journal_ok
             THEN [m1 EXCEPT !.e.raised = "exception"]
             ELSE [m1 EXCEPT !.rows = @ + 1,
                             !.e.journaled = Append(@, [symbol |-> pos.symbol,
                                                        direction |-> pos.direction,
                                                        entry_price |-> pos.entry_price,
                                                        exit_price |-> exit_price,
                                                        quantity |-> pos.quantity,
                                                        pnl |-> pnl,
                                                        exit_reason |-> reason]),
                             !.c.current_position = NoPosition]

\* mutant: a price equal to the stop loss does not trigger it
check_stop_loss_strict(m, script, journal_ok) ==
    IF m.c.current_position = NoPosition
    THEN m
    ELSE LET m1 == CallFetchOption(m, script)
             price == m1.ret
         IN  IF price = None
             THEN m1
             ELSE IF price < m1.c.current_position.stop_loss
             THEN exit_position(m1, price, "STOP_LOSS", journal_ok)
             ELSE m1

\* mutant: an unavailable price is compared like a price
check_stop_loss_no_none_check(m, script, journal_ok) ==
    IF m.c.current_position = NoPosition
    THEN m
    ELSE LET m1 == CallFetchOption(m, script)
             price == m1.ret
         IN  IF price <= m1.c.current_position.stop_loss
             THEN exit_position(m1, price, "STOP_LOSS", journal_ok)
             ELSE m1

check_stop_loss(m, script, journal_ok) ==
    IF m.c.current_position = NoPosition
    THEN m
    ELSE LET m1 == CallFetchOption(m, script)
             price == m1.ret
         IN  IF price = None
             THEN m1
             ELSE IF price <= m1.c.current_position.stop_loss
             THEN exit_position(m1, price, "STOP_LOSS", journal_ok)
             ELSE m1

check_profit_target(m, script, journal_ok) ==
    IF m.c.current_position = NoPosition
    THEN m
    ELSE LET m1 == CallFetchOption(m, script)
             price == m1.ret
         IN  IF price = None
             THEN m1
             ELSE IF price >= m1.c.current_position.profit_target
             THEN exit_position(m1, price, "PROFIT_TARGET", journal_ok)
             ELSE m1

\* exit_price = price if price else entry_price
force_eod_exit(m, script, journal_ok) ==
    IF m.c.current_position = NoPosition
    THEN m
    ELSE LET m1 == CallFetchOption(m, script)
             price == m1.ret
             exit_price == IF price # None /\ price # 0
                           THEN price
                           ELSE m1.c.current_position.entry_price
         IN  exit_position(m1, exit_price, "EOD_EXIT", journal_ok)

-----------------------------------------------------------------------------
(* The state machine *)

InitConfig ==
    [executed_trades_count |-> 0,
     current_position |-> NoPosition,
     last_trading_date |-> None,
     daily_pivot_point |-> None,
     instruments_data |-> <<>>,
     instrument_lookup_cache |-> {},
     daily_bias |-> "None",
     spot_price_breaker |-> CircuitBreaker,
     option_price_breaker |-> CircuitBreaker]

Init ==
    /\ config = InitConfig
    /\ clock \in 0..(StepsPerDay - 1)
    /\ isTradingDay \in BOOLEAN
    /\ ticked = FALSE
    /\ pc = "boot"
    /\ journal_rows = 0
    /\ last_known = None
    /\ last = EmptyEff

\* the end of a step of the control loop: the globals, the journal and the
\* observation are what the calls left; sys.exit stops the process
Finish(m) ==
    /\ config' = m.c
    /\ journal_rows' = m.rows
    /\ last_known' = IF m.c.current_position = NoPosition THEN None ELSE m.lk
    /\ last' = m.e
    /\ pc' = IF m.e.raised = "exit" THEN "stopped" ELSE "loop"
    /\ ticked' = TRUE
    /\ UNCHANGED <<clock, isTradingDay>>

(* main, part3_integrated.py lines 475-523: load the catalog, reset, loop *)
Startup ==
    /\ pc = "boot"
    /\ \E load1 \in Catalogs(Today) :
          LET m1 == load_instrument_data(Br(M0, "boot"), load1)
          IN  IF m1.e.raised # "no"
              THEN Finish(m1)
              ELSE \E load2 \in Catalogs(Today), feed \in DailyFeeds(Today) :
                      Finish(reset_daily_state(m1, load2, feed))

(* run_trading_loop, part3_integrated.py lines 355-370: position management *)
ManagePosition(m) ==
    IF Tod >= EOD_EXIT
    THEN \E script \in OptScripts, journal_ok \in BOOLEAN :
            Finish(force_eod_exit(Br(m, "eod"), script, journal_ok))
    ELSE \E script1 \in OptScripts, journal_ok \in BOOLEAN :
            LET m1 == check_stop_loss(Br(m, "monitor"), script1, journal_ok)
            IN  IF m1.e.raised # "no" \/ m1.c.current_position = NoPosition
                THEN Finish(m1)
                ELSE \E script2 \in OptScripts :
                        Finish(check_profit_target(m1, script2, journal_ok))

\* mutant: the directions are swapped
DirectionFromBias_swapped(daily_bias) == IF daily_bias = "BULLISH" THEN "PUT" ELSE "CALL"

(* run_trading_loop, part3_integrated.py line 430: direction from bias *)
DirectionFromBias(daily_bias) == IF daily_bias = "BULLISH" THEN "CALL" ELSE "PUT"

\* mutant: the minute of the cutoff is still open for entries
PastEntryCutoff_strict(tod) == tod > ENTRY_CUTOFF

(* run_trading_loop, part3_integrated.py lines 373-375: the entry cutoff *)
PastEntryCutoff(tod) == tod >= ENTRY_CUTOFF

\* mutant: a NEUTRAL bias goes on to the entry trigger
NoTradableBias_neutral_trades(daily_bias) == daily_bias = "None"

(* run_trading_loop, part3_integrated.py line 394: no bias to trade on *)
NoTradableBias(daily_bias) == daily_bias = "None" \/ daily_bias = "NEUTRAL"

(* run_trading_loop, part3_integrated.py lines 372-452: entry logic *)
EntryLogic(m) ==
    IF PastEntryCutoff(Tod)
    THEN Finish(Br(m, "cutoff"))
    ELSE IF Tod < BIAS_CANDLE_END
    THEN Finish(Br(m, "prebias"))
    ELSE \E first_candle \in (IF m.c.daily_bias = "None" THEN FirstCandles ELSE {NoCandle}) :
          LET m1 == determine_daily_bias(m, first_candle)
          IN  IF NoTradableBias(m1.c.daily_bias)
              THEN Finish(Br(m1, "nobias"))
              ELSE \E script \in SpotScripts :
                    LET m2 == CallFetchSpot(m1, script)
                        spot == m2.ret
                        pivot == m2.c.daily_pivot_point
                        direction == DirectionFromBias(m2.c.daily_bias)
                        itm_strike == calculate_itm_strike(spot, direction)
                        option_type == IF direction = "CALL" THEN "CE" ELSE "PE"
                        expiry == get_nearest_valid_expiry(m2.c.instruments_data, "NIFTY")
                        m3 == find_option_instrument(m2, "NIFTY", expiry, itm_strike, option_type)
                        instrument == m3.ret
                    IN  IF spot = None
                        THEN Finish(Br(m2, "nospot"))
                        ELSE IF ~is_in_pivot_zone(spot, pivot)
                        THEN Finish(Br(m2, "outzone"))
                        ELSE IF expiry = None
                        THEN Finish(Br(m2, "noexpiry"))
                        ELSE IF instrument = NoInstrument
                        THEN Finish(Br(m3, "noinstrument"))
                        ELSE \E script1 \in OptScripts, script2 \in OptScripts :
                                Finish(enter_position(Br(m3, "entry"), direction,
                                                      instrument.symbol, pivot,
                                                      script1, script2))

\* mutant: an open position does not keep the iteration from the entry logic
LoopBody_fallthrough(m) ==
    IF m.c.daily_pivot_point = None
    THEN Finish(Br(m, "nopivot"))
    ELSE EntryLogic(m)

(* run_trading_loop, part3_integrated.py lines 325-452: one iteration *)
LoopBody(m) ==
    IF m.c.daily_pivot_point = None
    THEN Finish(Br(m, "nopivot"))
    ELSE IF m.c.current_position # NoPosition
    THEN ManagePosition(m)
    ELSE EntryLogic(m)

(* What the upstream answers to the reset of an iteration.  On a date      *)
(* already reset the reset returns before it asks (lines 34-35), so what   *)
(* the upstream would answer is left out: one answer stands for all.       *)
ResetCatalogs ==
    IF config.last_trading_date = Today
    THEN {[ok |-> FALSE, rows |-> <<>>]}
    ELSE Catalogs(Today)

ResetFeeds ==
    IF config.last_trading_date = Today
    THEN {[ok |-> FALSE, candles |-> <<>>]}
    ELSE DailyFeeds(Today)

Tick ==
    /\ pc = "loop"
    /\ IF ~isTradingDay
       THEN Finish(Br(M0, "closed"))
       ELSE \E load \in ResetCatalogs, feed \in ResetFeeds :
               LET m1 == reset_daily_state(M0, load, feed)
               IN  IF m1.e.raised # "no"
                   THEN Finish(Br(m1, "reset"))
                   ELSE LoopBody(m1)

\* mutant: the handler closes the open position at the price it can get
KeyboardInterruptHandler_closes_position(m, script) ==
    IF m.c.current_position # NoPosition
    THEN force_eod_exit(CallFetchSpot(m, script), script, TRUE)
    ELSE m

(* KeyboardInterrupt, part3_integrated.py lines 454-462: the handler *)
KeyboardInterruptHandler(m, script) ==
    IF m.c.current_position # NoPosition
    THEN CallFetchSpot(m, script)
    ELSE m

(* An interrupt between two iterations ends the loop.  The sleep after an  *)
(* iteration is inside the try block, so the handler runs; the sleep after *)
(* an iteration that raised (line 468) is outside it, and an interrupt     *)
(* that arrives there ends the loop with no handler (in_try is false).     *)
Shutdown ==
    /\ pc = "loop"
    /\ \E script \in SpotScripts,
          in_try \in (IF last.raised = "exception" THEN BOOLEAN ELSE {TRUE}) :
          LET m0 == Br(M0, "shutdown")
              m == IF in_try THEN KeyboardInterruptHandler(m0, script) ELSE m0
          IN  /\ config' = m.c
              /\ journal_rows' = m.rows
              /\ last' = m.e
    /\ pc' = "stopped"
    /\ UNCHANGED <<clock, isTradingDay, ticked, last_known>>

(* Time passes.  The loop sleeps at most 300 s between iterations          *)
(* (get_sleep_duration, part1_config_and_utils.py lines 378-385), so every *)
(* clock step sees at least one iteration.                                 *)
Advance ==
    /\ pc = "loop"
    /\ ticked
    /\ clock < MaxClock
    /\ clock' = clock + 1
    /\ ticked' = FALSE
    /\ IF (clock + 1) % StepsPerDay = 0
       THEN isTradingDay' \in BOOLEAN
       ELSE isTradingDay' = isTradingDay
    /\ UNCHANGED <<config, pc, journal_rows, last_known, last>>

Next == Startup \/ Tick \/ Advance \/ Shutdown

Spec == Init /\ [][Next]_vars

(* Days on which the historical-candle feed has no completed day yet when *)
(* the reset asks for it: fetch_and_calculate_pivot returns None in main   *)
(* and in reset_daily_state.  What the feed would answer later is left     *)
(* open: only the answers given to the reset are restricted.               *)
FailedPivotStartup == Startup /\ config'.daily_pivot_point = None

FailedPivotTick == Tick /\ (last'.didReset => config'.daily_pivot_point = None)

FailedPivotNext == FailedPivotStartup \/ FailedPivotTick \/ Advance \/ Shutdown

(* The loop of run_trading_loop is `while True`: it keeps iterating until  *)
(* it is interrupted or the process exits, and the wall clock keeps going. *)
FailedPivotSpec ==
    Init /\ [][FailedPivotNext]_vars /\ WF_vars(FailedPivotTick) /\ WF_vars(Advance)

(* Days on which the upstream gives one catalog, one previous-day candle,  *)
(* one opening candle and one spot price, and every option price fetch is  *)
(* unavailable or returns 100.00.  Only the answers are restricted; the    *)
(* journal may fail as in Spec.                                            *)
SteadyAnswers(c, e) ==
    /\ e.raised # "exit"
    /\ e.didReset => /\ c.daily_pivot_point = 1850000
                     /\ Len(c.instruments_data) = 4
    /\ \A i \in DOMAIN e.biasCandles : e.biasCandles[i] = [ok |-> TRUE, close |-> 1845000]
    /\ \A i \in DOMAIN e.spotReads : e.spotReads[i] \in {None, 1851200}
    /\ \A i \in DOMAIN e.optReads : e.optReads[i] \in {None, 10000}

SteadyStartup == Startup /\ SteadyAnswers(config', last')

SteadyTick == Tick /\ SteadyAnswers(config', last')

SteadyNext == SteadyStartup \/ SteadyTick \/ Advance \/ Shutdown

(* As in FailedPivotSpec, the loop keeps iterating and the clock keeps going *)
SteadySpec ==
    Init /\ [][SteadyNext]_vars /\ WF_vars(SteadyTick) /\ WF_vars(Advance)

-----------------------------------------------------------------------------
(* The circuit breaker and the two fetches on their own: any sequence of   *)
(* record_failure, record_success, is_open and fetch calls at any times.   *)
(* last holds the call just made: the breaker before it (pre), the time    *)
(* (now), what the upstream answered (script) and what the call returned.  *)

\* answers of groww.get_ltp: at and just outside the plausibility range
SpotAnswers == {ERR, MIN_SPOT_PRICE - 1, MIN_SPOT_PRICE, MAX_SPOT_PRICE, MAX_SPOT_PRICE + 1}
OptionAnswers ==
    {ERR, MIN_OPTION_PRICE - 1, MIN_OPTION_PRICE, MAX_OPTION_PRICE, MAX_OPTION_PRICE + 1}

CallInit ==
    /\ config = InitConfig
    /\ clock = 0
    /\ isTradingDay = TRUE
    /\ ticked = FALSE
    /\ pc \in {"spot_price_breaker", "option_price_breaker"}
    /\ journal_rows = 0
    /\ last_known = None
    /\ last = [branch |-> "init", streak |-> 0]

\* a behaviour exercises one of the two breakers: pc names it
IsBreaker == pc \in {"spot_price_breaker", "option_price_breaker"}

\* is_open() finds the timeout elapsed and closes the breaker
CooldownOver(b, now) ==
    b.opened_at # None /\ now - b.opened_at > CIRCUIT_BREAKER_TIMEOUT_SEC

\* the record_failure calls made in a row after a fetch, from the calls it
\* made (recorded) and the number in a row before it
StreakAfter(streak, b, now, recorded) ==
    LET s0 == IF CooldownOver(b, now) THEN 0 ELSE streak
    IN  IF recorded = <<>> THEN s0
        ELSE IF recorded[Len(recorded)] = "success" THEN 0
        ELSE s0 + Len(recorded)

Call_record_failure ==
    /\ IsBreaker
    /\ config[pc].failure_count < MaxFailures
    /\ config' = [config EXCEPT ![pc] = record_failure(@)]
    /\ last' = [branch |-> "record_failure", pre |-> config[pc], now |-> TimeNow,
                streak |-> last.streak + 1]
    /\ UNCHANGED <<clock, isTradingDay, ticked, pc, journal_rows, last_known>>

Call_record_success ==
    /\ IsBreaker
    /\ config' = [config EXCEPT ![pc] = record_success(@)]
    /\ last' = [branch |-> "record_success", pre |-> config[pc], now |-> TimeNow,
                streak |-> 0]
    /\ UNCHANGED <<clock, isTradingDay, ticked, pc, journal_rows, last_known>>

Call_is_open ==
    /\ IsBreaker
    /\ LET o == is_open(config[pc])
       IN  /\ config' = [config EXCEPT ![pc] = o.breaker]
           /\ last' = [branch |-> "is_open", pre |-> config[pc],
                       now |-> TimeNow, open |-> o.open,
                       streak |-> IF CooldownOver(config[pc], TimeNow)
                                  THEN 0 ELSE last.streak]
    /\ UNCHANGED <<clock, isTradingDay, ticked, pc, journal_rows, last_known>>

Call_fetch_spot_price ==
    /\ pc = "spot_price_breaker"
    /\ \E script \in [1..MAX_RETRIES -> SpotAnswers] :
          LET r == fetch_spot_price(config.spot_price_breaker, script)
          IN  /\ config' = [config EXCEPT !.spot_price_breaker = r.breaker]
              /\ last' = [branch |-> "fetch_spot_price",
                          pre |-> config.spot_price_breaker, now |-> TimeNow,
                          script |-> script, result |-> r,
                          streak |-> StreakAfter(last.streak, config[pc], TimeNow,
                                                 r.recorded)]
    /\ UNCHANGED <<clock, isTradingDay, ticked, pc, journal_rows, last_known>>

Call_fetch_option_price ==
    /\ pc = "option_price_breaker"
    /\ \E script \in [1..MAX_RETRIES -> OptionAnswers] :
          LET r == fetch_option_price(config.option_price_breaker, script)
          IN  /\ config' = [config EXCEPT !.option_price_breaker = r.breaker]
              /\ last' = [branch |-> "fetch_option_price",
                          pre |-> config.option_price_breaker, now |-> TimeNow,
                          script |-> script, result |-> r,
                          streak |-> StreakAfter(last.streak, config[pc], TimeNow,
                                                 r.recorded)]
    /\ UNCHANGED <<clock, isTradingDay, ticked, pc, journal_rows, last_known>>

CallTime ==
    /\ IsBreaker
    /\ clock < MaxCallClock
    /\ clock' = clock + 1
    /\ UNCHANGED <<config, isTradingDay, ticked, pc, journal_rows, last_known, last>>

CallNext ==
    \/ Call_record_failure
    \/ Call_record_success
    \/ Call_is_open
    \/ Call_fetch_spot_price
    \/ Call_fetch_option_price
    \/ CallTime

CallSpec == CallInit /\ [][CallNext]_vars

-----------------------------------------------------------------------------
(* The two fetches side by side: any sequence of fetch_spot_price and      *)
(* fetch_option_price calls at any times, each on the module's breaker of  *)
(* its own.  last holds the call just made: both breakers before it (pre), *)
(* the time (now), what the upstream answered (script), the value returned.*)

BreakersInit ==
    /\ config = InitConfig
    /\ clock = 0
    /\ isTradingDay = TRUE
    /\ ticked = FALSE
    /\ pc = "breakers"
    /\ journal_rows = 0
    /\ last_known = None
    /\ last = [branch |-> "init"]

BothBreakers(c) ==
    [spot_price_breaker |-> c.spot_price_breaker,
     option_price_breaker |-> c.option_price_breaker]

Breakers_fetch_spot_price ==
    /\ pc = "breakers"
    /\ \E script \in [1..MAX_RETRIES -> {ERR, MIN_SPOT_PRICE}] :
          LET m == CallFetchSpot(M0, script)
          IN  /\ config' = m.c
              /\ last' = [branch |-> "fetch_spot_price", pre |-> BothBreakers(config),
                          now |-> TimeNow, script |-> script, value |-> m.ret]
    /\ UNCHANGED <<clock, isTradingDay, ticked, pc, journal_rows, last_known>>

Breakers_fetch_option_price ==
    /\ pc = "breakers"
    /\ \E script \in [1..MAX_RETRIES -> {ERR, MIN_OPTION_PRICE}] :
          LET m == CallFetchOption(M0, script)
          IN  /\ config' = m.c
              /\ last' = [branch |-> "fetch_option_price", pre |-> BothBreakers(config),
                          now |-> TimeNow, script |-> script, value |-> m.ret]
    /\ UNCHANGED <<clock, isTradingDay, ticked, pc, journal_rows, last_known>>

BreakersTime ==
    /\ pc = "breakers"
    /\ clock < MaxCallClock
    /\ clock' = clock + 1
    /\ UNCHANGED <<config, isTradingDay, ticked, pc, journal_rows, last_known, last>>

BreakersNext == Breakers_fetch_spot_price \/ Breakers_fetch_option_price \/ BreakersTime

BreakersSpec == BreakersInit /\ [][BreakersNext]_vars

-----------------------------------------------------------------------------
(* calculate_itm_strike on its own: one call on a spot price, which the    *)
(* feed gives as a float, and a direction                                  *)

StrikeSpots == {1849900 + 50 * k : k \in 0..MaxStrikeSteps}

StrikeDirections == {"CALL", "PUT", "NONE"}

StrikeInit ==
    /\ config = InitConfig
    /\ clock = 0
    /\ isTradingDay = TRUE
    /\ ticked = FALSE
    /\ pc = "strike"
    /\ journal_rows = 0
    /\ last_known = None
    /\ \E spot \in StrikeSpots, direction \in StrikeDirections :
          last = [branch |-> "input", spot |-> spot, direction |-> direction,
                  strike |-> None]

Strike_calculate_itm_strike ==
    /\ pc = "strike"
    /\ last.branch = "input"
    /\ last' = [last EXCEPT !.branch = "calculate_itm_strike",
                            !.strike = calculate_itm_strike(last.spot, last.direction)]
    /\ UNCHANGED <<config, clock, isTradingDay, ticked, pc, journal_rows, last_known>>

StrikeNext == Strike_calculate_itm_strike

StrikeSpec == StrikeInit /\ [][StrikeNext]_vars

-----------------------------------------------------------------------------
(* fetch_and_calculate_pivot on its own: one call on what the candle feed  *)
(* answers, daily candles of the last three dates in any order, one candle *)
(* per date                                                                *)

PivotPrices == {<<10000, 9000, 9500>>, <<10000, 9000, 9501>>, <<1860000, 1840000, 1850001>>}

PivotCandles(d) ==
    {Candle(date, p[1], p[2], p[3]) : date \in (d - 2)..d, p \in PivotPrices}

PivotFeeds(d) ==
    {[ok |-> FALSE, candles |-> <<>>]}
    \cup {[ok |-> TRUE, candles |-> candles] :
            candles \in {q \in UNION {[1..n -> PivotCandles(d)] : n \in 0..3} :
                            \A i, j \in DOMAIN q : i # j => q[i].date # q[j].date}}

PivotInit ==
    /\ config = InitConfig
    /\ clock = 2 * StepsPerDay
    /\ isTradingDay = TRUE
    /\ ticked = FALSE
    /\ pc = "pivot"
    /\ journal_rows = 0
    /\ last_known = None
    /\ \E feed \in PivotFeeds(2) :
          last = [branch |-> "input", feed |-> feed, pivot |-> None]

Pivot_fetch_and_calculate_pivot ==
    /\ pc = "pivot"
    /\ last.branch = "input"
    /\ last' = [last EXCEPT !.branch = "fetch_and_calculate_pivot",
                            !.pivot = fetch_and_calculate_pivot(last.feed)]
    /\ UNCHANGED <<config, clock, isTradingDay, ticked, pc, journal_rows, last_known>>

PivotNext == Pivot_fetch_and_calculate_pivot

PivotSpec == PivotInit /\ [][PivotNext]_vars

-----------------------------------------------------------------------------
(* SharedState, shared_state.py lines 10-196, and the reader of the        *)
(* dashboard, dashboard_server.py lines 21-24.  The control loop calls the *)
(* writing methods one after the other; a request thread of the dashboard  *)
(* calls get_state at any time.  A method is a sequence of statements      *)
(* between acquiring and releasing self._lock, one step each.  In this     *)
(* exercise `last` holds the object (state), the dicts that current_trade  *)
(* and the snapshots refer to (dicts), the lock, where either thread is,   *)
(* and the snapshots that get_state has returned.                          *)

EmptyDict == [empty |-> TRUE]

NoSnapshot == [none |-> TRUE]

NoArgs == [none |-> TRUE]

SinkPrices == {9000, 11000}

\* threading.RLock: who holds it and how many times
Unlocked == [owner |-> "none", count |-> 0]

\* mutant: the lock excludes nobody
Acquirable_by_anyone(lock, thread) == TRUE

Acquirable(lock, thread) == lock.owner \in {"none", thread}

acquire(lock, thread) == [owner |-> thread, count |-> lock.count + 1]

release(lock) ==
    IF lock.count <= 1 THEN Unlocked ELSE [lock EXCEPT !.count = @ - 1]

\* __init__, lines 24-63; current_trade refers to the first dict, {}
SharedState ==
    [market_status |-> "CLOSED", spot_price |-> None, pivot |-> None, bias |-> "None",
     status |-> "WAITING_FOR_MARKET", distance_to_pivot |-> None,
     in_trade |-> FALSE, current_trade |-> 1, trades |-> <<>>, events |-> <<>>,
     total_trades |-> 0, wins |-> 0, losses |-> 0, total_pnl |-> 0, max_drawdown |-> 0]

SinkInit ==
    /\ config = InitConfig
    /\ clock = 0
    /\ isTradingDay = TRUE
    /\ ticked = FALSE
    /\ pc = "sink"
    /\ journal_rows = 0
    /\ last_known = None
    /\ last = [branch |-> "sink",
               state |-> SharedState,
               dicts |-> <<EmptyDict>>,
               lock |-> Unlocked,
               loop |-> [method |-> "none", at |-> "idle", calls |-> 0, arg |-> NoArgs],
               reader |-> [at |-> "idle", reads |-> 0, building |-> NoSnapshot],
               snapshots |-> <<>>]

\* the statements that wait for the lock
AcquirePoints ==
    {"enter_trade.acquire", "enter_trade.add_event",
     "update_trade_price.acquire",
     "exit_trade.acquire", "exit_trade.add_event",
     "update_market.acquire",
     "update_strategy_status.acquire", "update_strategy_status.add_event",
     "add_event.acquire",
     "get_state.acquire"}

Blocked(k, thread, at) == at \in AcquirePoints /\ ~Acquirable(k.lock, thread)

\* the control loop calls a method of the sink
Call(k, method, arg) ==
    [k EXCEPT !.loop = [method |-> method, at |-> method \o ".acquire",
                        calls |-> @.calls + 1, arg |-> arg]]

\* the method releases the lock and returns to the control loop
Return(k) ==
    [k EXCEPT !.lock = release(@),
              !.loop = [method |-> "none", at |-> "idle", calls |-> @.calls,
                        arg |-> NoArgs]]

\* the control loop is at the statement `at`
Goto(k, at) == [k EXCEPT !.loop.at = at]

\* add_event called by a method that holds the lock: lines 164-168
AddEvent(k, message) ==
    [k EXCEPT !.state.events = Append(@, message)]

\* lines 87-103
enter_trade(k) ==
    LET at == k.loop.at
        arg == k.loop.arg
    IN  CASE at = "enter_trade.acquire" ->
               Goto([k EXCEPT !.lock = acquire(@, "loop")], "enter_trade.in_trade")
          [] at = "enter_trade.in_trade" ->
               Goto([k EXCEPT !.state.in_trade = TRUE], "enter_trade.current_trade")
          [] at = "enter_trade.current_trade" ->
               Goto([k EXCEPT !.dicts = Append(@, [symbol |-> arg.symbol,
                                                   entry_price |-> arg.entry_price,
                                                   quantity |-> arg.quantity,
                                                   current_price |-> arg.entry_price,
                                                   pnl |-> 0,
                                                   pnl_percent |-> 0]),
                               !.state.current_trade = Len(k.dicts) + 1],
                    "enter_trade.add_event")
          [] at = "enter_trade.add_event" ->
               Goto(AddEvent(k, "Trade entered"), "enter_trade.release")
          [] at = "enter_trade.release" ->
               Return(k)

\* lines 105-115
update_trade_price(k) ==
    LET at == k.loop.at
        current_price == k.loop.arg.current_price
        ref == k.state.current_trade
        entry == k.dicts[ref].entry_price
        qty == k.dicts[ref].quantity
    IN  CASE at = "update_trade_price.acquire" ->
               Goto([k EXCEPT !.lock = acquire(@, "loop")], "update_trade_price.test")
          [] at = "update_trade_price.test" ->
               IF k.state.in_trade /\ k.dicts[ref] # EmptyDict
               THEN Goto(k, "update_trade_price.current_price")
               ELSE Goto(k, "update_trade_price.release")
          [] at = "update_trade_price.current_price" ->
               Goto([k EXCEPT !.dicts[ref].current_price = current_price],
                    "update_trade_price.pnl")
          [] at = "update_trade_price.pnl" ->
               Goto([k EXCEPT !.dicts[ref].pnl = (current_price - entry) * qty],
                    "update_trade_price.pnl_percent")
          [] at = "update_trade_price.pnl_percent" ->
               Goto([k EXCEPT !.dicts[ref].pnl_percent =
                                  RoundDiv((current_price - entry) * 10000, entry)],
                    "update_trade_price.release")
          [] at = "update_trade_price.release" ->
               Return(k)

\* lines 117-162
exit_trade(k) ==
    LET at == k.loop.at
        arg == k.loop.arg
        ref == k.state.current_trade
    IN  CASE at = "exit_trade.acquire" ->
               Goto([k EXCEPT !.lock = acquire(@, "loop")], "exit_trade.test")
          [] at = "exit_trade.test" ->
               IF ~k.state.in_trade
               THEN Goto(k, "exit_trade.release")
               ELSE LET entry == k.dicts[ref].entry_price
                        qty == k.dicts[ref].quantity
                    IN  Goto([k EXCEPT !.loop.arg =
                                [exit_price |-> arg.exit_price,
                                 exit_reason |-> arg.exit_reason,
                                 pnl |-> (arg.exit_price - entry) * qty,
                                 trade_record |->
                                    [symbol |-> k.dicts[ref].symbol,
                                     entry_price |-> entry,
                                     exit_price |-> arg.exit_price,
                                     quantity |-> qty,
                                     pnl |-> (arg.exit_price - entry) * qty,
                                     pnl_percent |->
                                        RoundDiv((arg.exit_price - entry) * 10000, entry),
                                     exit_reason |-> arg.exit_reason]]],
                             "exit_trade.trades")
          [] at = "exit_trade.trades" ->
               Goto([k EXCEPT !.state.trades = Append(@, arg.trade_record)],
                    "exit_trade.total_trades")
          [] at = "exit_trade.total_trades" ->
               Goto([k EXCEPT !.state.total_trades = @ + 1], "exit_trade.total_pnl")
          [] at = "exit_trade.total_pnl" ->
               Goto([k EXCEPT !.state.total_pnl = @ + arg.pnl], "exit_trade.wins")
          [] at = "exit_trade.wins" ->
               IF arg.pnl > 0
               THEN Goto([k EXCEPT !.state.wins = @ + 1], "exit_trade.max_drawdown")
               ELSE Goto([k EXCEPT !.state.losses = @ + 1], "exit_trade.max_drawdown")
          [] at = "exit_trade.max_drawdown" ->
               IF k.state.total_pnl < k.state.max_drawdown
               THEN Goto([k EXCEPT !.state.max_drawdown = k.state.total_pnl],
                         "exit_trade.in_trade")
               ELSE Goto(k, "exit_trade.in_trade")
          [] at = "exit_trade.in_trade" ->
               Goto([k EXCEPT !.state.in_trade = FALSE], "exit_trade.current_trade")
          [] at = "exit_trade.current_trade" ->
               Goto([k EXCEPT !.dicts = Append(@, EmptyDict),
                               !.state.current_trade = Len(k.dicts) + 1],
                    "exit_trade.add_event")
          [] at = "exit_trade.add_event" ->
               Goto(AddEvent(k, "Trade exited"), "exit_trade.release")
          [] at = "exit_trade.release" ->
               Return(k)

\* lines 65-79
update_market(k) ==
    LET at == k.loop.at
        arg == k.loop.arg
    IN  CASE at = "update_market.acquire" ->
               Goto([k EXCEPT !.lock = acquire(@, "loop")], "update_market.spot_price")
          [] at = "update_market.spot_price" ->
               Goto([k EXCEPT !.state.spot_price =
                                  IF arg.spot_price # None THEN arg.spot_price ELSE @],
                    "update_market.pivot")
          [] at = "update_market.pivot" ->
               Goto([k EXCEPT !.state.pivot = IF arg.pivot # None THEN arg.pivot ELSE @],
                    "update_market.bias")
          [] at = "update_market.bias" ->
               Goto([k EXCEPT !.state.bias = IF arg.bias # "None" THEN arg.bias ELSE @],
                    "update_market.market_status")
          [] at = "update_market.market_status" ->
               Goto([k EXCEPT !.state.market_status =
                                  IF arg.status # "None" THEN arg.status ELSE @],
                    "update_market.distance_to_pivot")
          [] at = "update_market.distance_to_pivot" ->
               IF k.state.spot_price \notin {None, 0} /\ k.state.pivot \notin {None, 0}
               THEN Goto([k EXCEPT !.state.distance_to_pivot =
                                       k.state.spot_price - k.state.pivot],
                         "update_market.release")
               ELSE Goto(k, "update_market.release")
          [] at = "update_market.release" ->
               Return(k)

\* lines 81-85
update_strategy_status(k) ==
    LET at == k.loop.at
    IN  CASE at = "update_strategy_status.acquire" ->
               Goto([k EXCEPT !.lock = acquire(@, "loop")], "update_strategy_status.status")
          [] at = "update_strategy_status.status" ->
               Goto([k EXCEPT !.state.status = k.loop.arg.status],
                    "update_strategy_status.add_event")
          [] at = "update_strategy_status.add_event" ->
               Goto(AddEvent(k, "Status"), "update_strategy_status.release")
          [] at = "update_strategy_status.release" ->
               Return(k)

\* lines 164-168
add_event(k) ==
    LET at == k.loop.at
    IN  CASE at = "add_event.acquire" ->
               Goto([k EXCEPT !.lock = acquire(@, "loop")], "add_event.events")
          [] at = "add_event.events" ->
               Goto(AddEvent(k, k.loop.arg.message), "add_event.release")
          [] at = "add_event.release" ->
               Return(k)

\* the request thread is at the statement `at`
ReaderGoto(k, at) == [k EXCEPT !.reader.at = at]

\* lines 170-196; the entries of the dict are evaluated in the order written,
\* dict(self.current_trade) makes a new dict
get_state(k) ==
    LET at == k.reader.at
        s == k.state
    IN  CASE at = "get_state.acquire" ->
               ReaderGoto([k EXCEPT !.lock = acquire(@, "reader")], "get_state.win_rate")
          [] at = "get_state.win_rate" ->
               ReaderGoto([k EXCEPT !.reader.building =
                              [win_rate |-> IF s.total_trades > 0
                                            THEN RoundDiv(s.wins * 1000, s.total_trades)
                                            ELSE 0]],
                          "get_state.market")
          [] at = "get_state.market" ->
               ReaderGoto([k EXCEPT !.reader.building =
                              [win_rate |-> @.win_rate,
                               market_status |-> s.market_status,
                               spot_price |-> s.spot_price,
                               pivot |-> s.pivot,
                               bias |-> s.bias,
                               status |-> s.status,
                               distance_to_pivot |-> s.distance_to_pivot]],
                          "get_state.in_trade")
          [] at = "get_state.in_trade" ->
               ReaderGoto([k EXCEPT !.reader.building =
                              [f \in DOMAIN @ \cup {"in_trade"} |->
                                  IF f = "in_trade" THEN s.in_trade ELSE @[f]]],
                          "get_state.current_trade")
          [] at = "get_state.current_trade" ->
               ReaderGoto([k EXCEPT !.dicts = Append(@, k.dicts[s.current_trade]),
                                    !.reader.building =
                              [f \in DOMAIN @ \cup {"current_trade"} |->
                                  IF f = "current_trade" THEN Len(k.dicts) + 1 ELSE @[f]]],
                          "get_state.trades")
          [] at = "get_state.trades" ->
               ReaderGoto([k EXCEPT !.reader.building =
                              [f \in DOMAIN @ \cup {"trades"} |->
                                  IF f = "trades" THEN s.trades ELSE @[f]]],
                          "get_state.events")
          [] at = "get_state.events" ->
               ReaderGoto([k EXCEPT !.reader.building =
                              [f \in DOMAIN @ \cup {"events"} |->
                                  IF f = "events" THEN s.events ELSE @[f]]],
                          "get_state.total_trades")
          [] at = "get_state.total_trades" ->
               ReaderGoto([k EXCEPT !.reader.building =
                              [f \in DOMAIN @ \cup {"total_trades"} |->
                                  IF f = "total_trades" THEN s.total_trades ELSE @[f]]],
                          "get_state.wins")
          [] at = "get_state.wins" ->
               ReaderGoto([k EXCEPT !.reader.building =
                              [f \in DOMAIN @ \cup {"wins"} |->
                                  IF f = "wins" THEN s.wins ELSE @[f]]],
                          "get_state.losses")
          [] at = "get_state.losses" ->
               ReaderGoto([k EXCEPT !.reader.building =
                              [f \in DOMAIN @ \cup {"losses"} |->
                                  IF f = "losses" THEN s.losses ELSE @[f]]],
                          "get_state.total_pnl")
          [] at = "get_state.total_pnl" ->
               ReaderGoto([k EXCEPT !.reader.building =
                              [f \in DOMAIN @ \cup {"total_pnl", "max_drawdown"} |->
                                  IF f = "total_pnl" THEN s.total_pnl
                                  ELSE IF f = "max_drawdown" THEN s.max_drawdown
                                  ELSE @[f]]],
                          "get_state.release")
          [] at = "get_state.release" ->
               [k EXCEPT !.lock = release(@),
                         !.snapshots = Append(@, k.reader.building),
                         !.reader.at = "idle",
                         !.reader.building = NoSnapshot]

SinkStep(k) ==
    /\ last' = k
    /\ UNCHANGED <<config, clock, isTradingDay, ticked, pc, journal_rows, last_known>>

\* the control loop goes on in the method of the given name
LoopIn(method) ==
    /\ pc = "sink"
    /\ last.loop.method = method
    /\ ~Blocked(last, "loop", last.loop.at)

LoopIdle == pc = "sink" /\ last.loop.at = "idle" /\ last.loop.calls < MaxSinkCalls

Sink_enter_trade ==
    \/ /\ LoopIdle
       /\ SinkStep(Call(last, "enter_trade",
                        [symbol |-> "CE18500", entry_price |-> 10000,
                         quantity |-> NIFTY_LOT_SIZE * TRADE_LOTS]))
    \/ /\ LoopIn("enter_trade")
       /\ SinkStep(enter_trade(last))

Sink_update_trade_price ==
    \/ /\ LoopIdle
       /\ \E current_price \in SinkPrices :
             SinkStep(Call(last, "update_trade_price",
                           [current_price |-> current_price]))
    \/ /\ LoopIn("update_trade_price")
       /\ SinkStep(update_trade_price(last))

Sink_exit_trade ==
    \/ /\ LoopIdle
       /\ \E exit_price \in SinkPrices :
             SinkStep(Call(last, "exit_trade",
                           [exit_price |-> exit_price, exit_reason |-> "EOD_EXIT"]))
    \/ /\ LoopIn("exit_trade")
       /\ SinkStep(exit_trade(last))

\* the calls of run_trading_loop, part3_integrated.py lines 333, 349, 405, 417
Sink_update_market ==
    \/ /\ LoopIdle
       /\ \E arg \in {[spot_price |-> None, pivot |-> None, bias |-> "None",
                       status |-> "CLOSED"],
                      [spot_price |-> None, pivot |-> 1850000, bias |-> "None",
                       status |-> "OPEN"],
                      [spot_price |-> None, pivot |-> None, bias |-> "BULLISH",
                       status |-> "None"],
                      [spot_price |-> 1851200, pivot |-> None, bias |-> "None",
                       status |-> "None"]} :
             SinkStep(Call(last, "update_market", arg))
    \/ /\ LoopIn("update_market")
       /\ SinkStep(update_market(last))

Sink_update_strategy_status ==
    \/ /\ LoopIdle
       /\ SinkStep(Call(last, "update_strategy_status", [status |-> "IN_TRADE"]))
    \/ /\ LoopIn("update_strategy_status")
       /\ SinkStep(update_strategy_status(last))

Sink_add_event ==
    \/ /\ LoopIdle
       /\ SinkStep(Call(last, "add_event", [message |-> "EOD exit triggered"]))
    \/ /\ LoopIn("add_event")
       /\ SinkStep(add_event(last))

\* dashboard_server.py lines 21-24: a request for /api/state
Sink_get_state ==
    /\ pc = "sink"
    /\ \/ /\ last.reader.at = "idle"
          /\ last.reader.reads < MaxSinkReads
          /\ SinkStep([last EXCEPT !.reader.at = "get_state.acquire",
                                   !.reader.reads = @ + 1])
       \/ /\ last.reader.at # "idle"
          /\ ~Blocked(last, "reader", last.reader.at)
          /\ SinkStep(get_state(last))

SinkNext ==
    \/ Sink_enter_trade
    \/ Sink_update_trade_price
    \/ Sink_exit_trade
    \/ Sink_update_market
    \/ Sink_update_strategy_status
    \/ Sink_add_event
    \/ Sink_get_state

SinkSpec == SinkInit /\ [][SinkNext]_vars

-----------------------------------------------------------------------------
(* Properties *)

\* a step that is one iteration of the control loop
TickStep == pc = "loop" /\ ticked' /\ clock' = clock /\ last'.branch # "shutdown"

Position == config.current_position
HasPosition == config.current_position # NoPosition

\* the prices the option fetches of the last iteration returned
GoodReads(e) == {e.optReads[i] : i \in DOMAIN e.optReads} \ {None}
InOptionRange(p) == MIN_OPTION_PRICE <= p /\ p <= MAX_OPTION_PRICE

\* C1: the number of trades of the day never exceeds MAX_DAILY_TRADES, and
\* a call of enter_position at the cap buys nothing and leaves the count
C1_TradeCap ==
    /\ config.executed_trades_count <= MAX_DAILY_TRADES
    /\ (last.branch = "entry"
        /\ last.entryPre.executed_trades_count >= MAX_DAILY_TRADES)
       => /\ last.buys = <<>>
          /\ config.executed_trades_count = last.entryPre.executed_trades_count

C1_Witness ==
    /\ last.branch = "entry"
    /\ last.entryPre.executed_trades_count = MAX_DAILY_TRADES
    /\ last.buys = <<>>
    /\ config.executed_trades_count = MAX_DAILY_TRADES

\* C2: an iteration that begins with a position open makes no entry attempt:
\* no spot fetch, no instrument resolution, no call of enter_position, no
\* buy; the position stays or is closed, never replaced, and the count is
\* not changed (only the reset of a new date sets it to 0, with no position)
C2_NoReentry ==
    [][(TickStep /\ HasPosition)
       => /\ last'.spotReads = <<>>
          /\ last'.resolves = 0
          /\ last'.entryPre = NoSnap
          /\ last'.buys = <<>>
          /\ config'.current_position \in {config.current_position, NoPosition}
          /\ \/ config'.executed_trades_count = config.executed_trades_count
             \/ /\ last'.didReset
                /\ config'.executed_trades_count = 0
                /\ config'.current_position = NoPosition]_vars

C2_Witness ==
    /\ last.branch = "monitor"
    /\ Len(last.optReads) = 2
    /\ HasPosition
    /\ config.executed_trades_count = 1

\* C3: an open position is a CALL under a BULLISH bias and a PUT under a
\* BEARISH bias, and nothing is bought while the bias is unset or NEUTRAL
C3_DirectionFollowsBias ==
    /\ HasPosition
       => \/ config.daily_bias = "BULLISH" /\ Position.direction = "CALL"
          \/ config.daily_bias = "BEARISH" /\ Position.direction = "PUT"
    /\ last.buys # <<>>
       => HasPosition /\ config.daily_bias \in {"BULLISH", "BEARISH"}

C3_Witness ==
    /\ last.buys # <<>>
    /\ HasPosition
    /\ Position.direction = "PUT"
    /\ config.daily_bias = "BEARISH"

\* C4: while a position is open at least one trade has been counted
C4_OpenImpliesCounted == HasPosition => config.executed_trades_count >= 1

C4_Witness ==
    /\ HasPosition
    /\ config.executed_trades_count = 1
    /\ last.didReset = FALSE
    /\ last.buys # <<>>

\* C5: a call of enter_position with the count at MAX_DAILY_TRADES fetches
\* no option price, buys nothing and leaves the count, the position and
\* both circuit breakers as they were when it was called
C5_RejectedEntryChangesNothing ==
    (last.branch = "entry"
     /\ last.entryPre.executed_trades_count = MAX_DAILY_TRADES)
    => /\ last.optReads = <<>>
       /\ last.buys = <<>>
       /\ Snapshot(config) = last.entryPre

C5_Witness ==
    /\ last.branch = "entry"
    /\ last.entryPre.executed_trades_count = MAX_DAILY_TRADES
    /\ last.spotReads # <<>>
    /\ last.optReads = <<>>
    /\ journal_rows >= MAX_DAILY_TRADES

\* the two reads of an entry do not allow it
BadEntryReads(r) ==
    \/ r[1] = None
    \/ r[2] = None
    \/ r[1] <= 0
    \/ r[2] <= 0
    \/ 100 * Abs(r[2] - r[1]) > 5 * r[1]

EntryWasAllowed ==
    /\ last.branch = "entry"
    /\ last.entryPre.executed_trades_count < MAX_DAILY_TRADES
    /\ last.entryPre.current_position = NoPosition

\* C6: an allowed entry reads the option price twice; when a read is
\* unavailable or not positive, or the two differ by more than 5% of the
\* first, nothing is bought, no position is created and the count stays
C6_UnstableEntryAborts ==
    EntryWasAllowed
    => /\ Len(last.optReads) = 2
       /\ BadEntryReads(last.optReads)
          => /\ last.buys = <<>>
             /\ ~HasPosition
             /\ config.executed_trades_count = last.entryPre.executed_trades_count

C6_Witness ==
    /\ EntryWasAllowed
    /\ last.optReads = <<10000, 11000>>
    /\ last.buys = <<>>
    /\ ~HasPosition

\* every price at which the last iteration bought or sold was returned by
\* an option fetch of that iteration and lies in the plausibility range
C7_EveryPriceFetchedThisTick ==
    /\ \A i \in DOMAIN last.buys :
          last.buys[i].price \in GoodReads(last) /\ InOptionRange(last.buys[i].price)
    /\ \A i \in DOMAIN last.sells :
          last.sells[i].price \in GoodReads(last) /\ InOptionRange(last.sells[i].price)

\* C7: every entry price and every STOP_LOSS or PROFIT_TARGET exit price is
\* an in-range option price fetched in the same iteration; an EOD_EXIT
\* price is such a price or, when the fetch of that iteration is
\* unavailable, the entry price recorded in the position, itself in range
C7_PricesAreFetchedOrEntryPrice ==
    [][TickStep
       => /\ \A i \in DOMAIN last'.buys :
                /\ last'.buys[i].price \in GoodReads(last')
                /\ InOptionRange(last'.buys[i].price)
          /\ \A i \in DOMAIN last'.sells :
                /\ InOptionRange(last'.sells[i].price)
                /\ \/ last'.sells[i].price \in GoodReads(last')
                   \/ /\ last'.sells[i].reason = "EOD_EXIT"
                      /\ last'.optReads = <<None>>
                      /\ HasPosition
                      /\ last'.sells[i].price = config.current_position.entry_price]_vars

C7_Witness ==
    /\ last.branch = "eod"
    /\ last.optReads = <<None>>
    /\ Len(last.sells) = 1
    /\ Len(last.journaled) = 1
    /\ last.journaled[1].exit_price = last.journaled[1].entry_price
    /\ last.journaled[1].exit_reason = "EOD_EXIT"

\* C8: at a forced exit whose fetch is unavailable the exit price is the
\* option price most recently fetched for the position
C8_FallbackIsLastKnownPrice ==
    [][(TickStep /\ HasPosition /\ last'.branch = "eod" /\ last'.optReads = <<None>>)
       => /\ Len(last'.sells) = 1
          /\ last'.sells[1].price = last_known]_vars

\* C9: an iteration that starts with a position open at or after EOD_EXIT
\* makes the forced exit and no stop-loss or profit-target check, sells once
\* with reason EOD_EXIT and ends with no position
C9_ForcedExitClearsPosition ==
    [][(TickStep /\ HasPosition /\ Tod >= EOD_EXIT)
       => /\ last'.branch = "eod"
          /\ Len(last'.optReads) = 1
          /\ Len(last'.sells) = 1
          /\ last'.sells[1].reason = "EOD_EXIT"
          /\ config'.current_position = NoPosition]_vars

\* C10: an iteration that monitors an open position before EOD_EXIT and
\* gets no option price leaves the position, the count and the journal as
\* they were and sells nothing; a sale is always at a price just fetched
C10_UnavailableMonitoringSkips ==
    [][(TickStep /\ HasPosition /\ isTradingDay /\ Tod < EOD_EXIT
        /\ config.last_trading_date = Today)
       => /\ last'.branch = "monitor"
          /\ (\A i \in DOMAIN last'.optReads : last'.optReads[i] = None)
             => /\ config'.current_position = config.current_position
                /\ config'.executed_trades_count = config.executed_trades_count
                /\ last'.sells = <<>>
                /\ last'.journaled = <<>>
                /\ journal_rows' = journal_rows
          /\ \A i \in DOMAIN last'.sells :
                /\ last'.sells[i].price # None
                /\ last'.sells[i].price = last'.optReads[Len(last'.optReads)]]_vars

C10_Witness ==
    /\ last.branch = "monitor"
    /\ last.optReads = <<None, None>>
    /\ last.sells = <<>>
    /\ HasPosition

\* the sale exit_position submits for position pos
SellOf(pos, price, reason) ==
    [symbol |-> pos.symbol, quantity |-> pos.quantity, price |-> price, reason |-> reason]

\* C11: a monitoring iteration compares the price with the stop loss first
\* (<=, boundary included) and sells with reason STOP_LOSS without fetching
\* or comparing for the profit target; only when the stop loss is not hit
\* is the profit target compared (>=, boundary included); at most one sale
C11_StopLossBeforeProfitTarget ==
    [][(TickStep /\ HasPosition /\ last'.branch = "monitor")
       => LET r == last'.optReads
              pos == config.current_position
          IN  /\ Len(last'.sells) <= 1
              /\ Len(r) >= 1
              /\ (r[1] # None /\ r[1] <= pos.stop_loss)
                 => /\ Len(r) = 1
                    /\ last'.sells = <<SellOf(pos, r[1], "STOP_LOSS")>>
              /\ (r[1] = None \/ r[1] > pos.stop_loss)
                 => /\ Len(r) = 2
                    /\ (r[2] # None /\ r[2] >= pos.profit_target)
                       => last'.sells = <<SellOf(pos, r[2], "PROFIT_TARGET")>>
                    /\ (r[2] = None \/ r[2] < pos.profit_target)
                       => last'.sells = <<>>]_vars

C11_Witness ==
    /\ last.branch = "monitor"
    /\ last.optReads = <<9000>>
    /\ Len(last.journaled) = 1
    /\ last.journaled[1].entry_price = 10000
    /\ last.journaled[1].exit_price = 9000
    /\ last.journaled[1].exit_reason = "STOP_LOSS"
    /\ ~HasPosition

\* the loop runs on a trading day whose reset left the pivot unset
PivotMissing ==
    /\ pc = "loop"
    /\ isTradingDay
    /\ config.last_trading_date = Today
    /\ config.daily_pivot_point = None

C13_IterationNeverEndsLoop ==
    [][TickStep => pc' = "loop"]_vars

\* C14: an iteration that submits a sale submits exactly one, appends
\* exactly one record to the journal and ends with the position cleared
C14_ExitSellsAndRecordsOnce ==
    [][(TickStep /\ last'.sells # <<>>)
       => /\ Len(last'.sells) = 1
          /\ Len(last'.journaled) = 1
          /\ journal_rows' = journal_rows + 1
          /\ config'.current_position = NoPosition]_vars

\* the step is an iteration that resets the daily state
ResetStep == TickStep /\ last'.didReset

\* branches of an iteration that come after the call of determine_daily_bias
AfterBiasCall == {"nobias", "nospot", "outzone", "noexpiry", "noinstrument", "entry"}

\* C22: a bias that is BULLISH, BEARISH or NEUTRAL keeps its value in every
\* step but a daily reset, and determine_daily_bias called with it changes
\* nothing and does not fetch the opening candle, whatever that candle is
C22_BiasIsWriteOnce ==
    [][(config.daily_bias # "None" /\ ~ResetStep)
       => /\ config'.daily_bias = config.daily_bias
          /\ TickStep
             => /\ last'.biasFetches = 0
                /\ \A first_candle \in FirstCandles :
                      determine_daily_bias(M0, first_candle) = M0]_vars

C22_Witness ==
    /\ last.branch = "nobias"
    /\ ~last.didReset
    /\ last.biasFetches = 0
    /\ config.daily_bias = "NEUTRAL"

\* C23: an iteration that calls determine_daily_bias with the bias unset
\* (the pivot is set and the opening candle has ended there) fetches the
\* opening candle once; the bias becomes BULLISH iff its close > pivot,
\* BEARISH iff close < pivot, NEUTRAL iff close = pivot, and stays unset
\* when no candle is available
C23_BiasFromOpeningCandle ==
    [][(TickStep /\ last'.branch \in AfterBiasCall
        /\ (config.daily_bias = "None" \/ last'.didReset))
       => /\ config'.daily_pivot_point # None
          /\ Tod >= BIAS_CANDLE_END
          /\ last'.biasFetches = 1
          /\ Len(last'.biasCandles) = 1
          /\ LET first_candle == last'.biasCandles[1]
                  pivot == config'.daily_pivot_point
                  bias == config'.daily_bias
             IN  /\ first_candle \in FirstCandles
                 /\ ~first_candle.ok => bias = "None"
                 /\ first_candle.ok
                    => /\ bias = "BULLISH" <=> first_candle.close > pivot
                       /\ bias = "BEARISH" <=> first_candle.close < pivot
                       /\ bias = "NEUTRAL" <=> first_candle.close = pivot]_vars

C23_Witness ==
    /\ last.branch = "nobias"
    /\ last.biasFetches = 1
    /\ last.biasCandles = <<[ok |-> TRUE, close |-> config.daily_pivot_point]>>
    /\ config.daily_bias = "NEUTRAL"

\* C24: from the iteration that makes the bias NEUTRAL to the next daily
\* reset the bias stays NEUTRAL and no iteration fetches the spot price,
\* resolves an instrument, calls enter_position, fetches an option price or
\* buys; no position is open while the bias is NEUTRAL
C24_NeutralDayIdles ==
    [][/\ (config.daily_bias = "NEUTRAL" /\ ~ResetStep)
          => config'.daily_bias = "NEUTRAL"
       /\ (TickStep /\ config'.daily_bias = "NEUTRAL")
          => /\ last'.spotReads = <<>>
             /\ last'.resolves = 0
             /\ last'.entryPre = NoSnap
             /\ last'.optReads = <<>>
             /\ last'.buys = <<>>
             /\ config'.current_position = NoPosition
             /\ config'.executed_trades_count = 0]_vars

C24_Witness ==
    /\ config.daily_bias = "NEUTRAL"
    /\ last.branch = "nobias"
    /\ last.biasCandles = <<>>
    /\ last.spotReads = <<>>
    /\ Tod = ENTRY_CUTOFF - 1
    /\ Tod > BIAS_CANDLE_END
    /\ ~HasPosition

\* C25: while the loop runs, no step but a daily reset changes the pivot,
\* and a position, from its entry on, records the pivot of the day
C25_PivotIsLocked ==
    [][/\ (pc = "loop" /\ ~ResetStep)
          => config'.daily_pivot_point = config.daily_pivot_point
       /\ config'.current_position # NoPosition
          => /\ config'.daily_pivot_point # None
             /\ config'.current_position.pivot = config'.daily_pivot_point]_vars

C25_Witness ==
    /\ HasPosition
    /\ last.branch = "monitor"
    /\ last.optReads = <<10400, 10400>>
    /\ Position.pivot = config.daily_pivot_point
    /\ config.executed_trades_count = MAX_DAILY_TRADES

\* C26: on a date whose reset has completed, reset_daily_state returns the
\* state it was given whatever the upstream would answer (the count, the
\* position, the bias, the pivot, the catalog, the cache and the breakers
\* are as they were and nothing was asked), also after trades of that date;
\* an iteration of that date resets nothing and keeps the date, the pivot,
\* the catalog, the cache entries and the trades counted
C26_ResetIsIdempotent ==
    /\ [](config.last_trading_date = Today
          => \A load \in Catalogs(Today), feed \in DailyFeeds(Today) :
                reset_daily_state(M0, load, feed) = M0)
    /\ [][(TickStep /\ isTradingDay /\ config.last_trading_date = Today)
          => /\ ~last'.didReset
             /\ last'.raised # "exit"
             /\ config'.last_trading_date = Today
             /\ config'.daily_pivot_point = config.daily_pivot_point
             /\ config'.instruments_data = config.instruments_data
             /\ config.instrument_lookup_cache \subseteq config'.instrument_lookup_cache
             /\ config'.executed_trades_count >= config.executed_trades_count
             /\ config.daily_bias # "None" => config'.daily_bias = config.daily_bias]_vars

C26_Witness ==
    /\ pc = "loop"
    /\ config.last_trading_date = Today
    /\ last.branch = "entry"
    /\ ~last.didReset
    /\ last.entryPre.executed_trades_count = 1
    /\ config.executed_trades_count = MAX_DAILY_TRADES
    /\ HasPosition
    /\ config.instrument_lookup_cache # {}

\* the step is the handling of an interrupt
ShutdownStep == pc = "loop" /\ last'.branch = "shutdown"

\* C27: an interrupt ends the loop after at most one fetch of the spot
\* price, made only when a position is open; no option price is fetched,
\* nothing is sold and nothing is appended to the journal; the position and
\* the count of trades are after it what they were before
C27_ShutdownLeavesPosition ==
    [][ShutdownStep
       => /\ pc' = "stopped"
          /\ Len(last'.spotReads) <= 1
          /\ ~HasPosition => last'.spotReads = <<>>
          /\ (HasPosition /\ last.raised # "exception") => Len(last'.spotReads) = 1
          /\ last'.optReads = <<>>
          /\ last'.sells = <<>>
          /\ last'.journaled = <<>>
          /\ journal_rows' = journal_rows
          /\ config'.current_position = config.current_position
          /\ config'.executed_trades_count = config.executed_trades_count]_vars

C27_Witness ==
    /\ pc = "stopped"
    /\ last.branch = "shutdown"
    /\ last.spotReads = <<None>>
    /\ HasPosition
    /\ config.executed_trades_count = 1
    /\ journal_rows = 0

\* C28: an iteration at or after ENTRY_CUTOFF buys nothing and opens no
\* position, whatever the count, the bias and the spot price are: it does
\* not fetch the opening candle or the spot price, resolves no instrument
\* and does not call enter_position, and the bias and the count stay
C28_NoEntryAfterCutoff ==
    [][(TickStep /\ Tod >= ENTRY_CUTOFF)
       => /\ last'.buys = <<>>
          /\ last'.biasFetches = 0
          /\ last'.spotReads = <<>>
          /\ last'.resolves = 0
          /\ last'.entryPre = NoSnap
          /\ config'.current_position \in {config.current_position, NoPosition}
          /\ ~last'.didReset
             => /\ config'.daily_bias = config.daily_bias
                /\ config'.executed_trades_count = config.executed_trades_count]_vars

C28_Witness ==
    /\ last.branch = "cutoff"
    /\ Tod = ENTRY_CUTOFF
    /\ config.daily_bias = "BEARISH"
    /\ config.executed_trades_count = 1
    /\ ~HasPosition
    /\ journal_rows = 1

Cache == config.instrument_lookup_cache

\* C29: an instrument in the cache is returned for its key whatever the
\* catalog holds, and the call leaves the cache as it is; the cache holds
\* one entry for a key and no failed resolution; no step but a daily reset
\* removes an entry, and an iteration whose resolution fails adds none
C29_CacheHoldsForTheDay ==
    /\ [](\A x \in Cache :
             /\ x.value # NoInstrument
             /\ \A y \in Cache : y.key = x.key => y = x
             /\ \A load \in Catalogs(Today) :
                   LET m == [M0 EXCEPT !.c.instruments_data = load.rows]
                       r == find_option_instrument(m, x.key[1], x.key[2], x.key[3], x.key[4])
                   IN  /\ r.ret = x.value
                       /\ r.c = m.c)
    /\ [][/\ (pc = "loop" /\ ~ResetStep)
             => config.instrument_lookup_cache \subseteq config'.instrument_lookup_cache
          /\ (TickStep /\ last'.branch = "noinstrument")
             => config'.instrument_lookup_cache
                = (IF last'.didReset THEN {} ELSE config.instrument_lookup_cache)]_vars

\* the second entry attempt of the day: the first one put the key in the
\* cache, and the cache still holds that one entry
C29_Witness ==
    /\ last.branch = "entry"
    /\ ~last.didReset
    /\ last.resolves = 1
    /\ last.entryPre.executed_trades_count = 1
    /\ Cardinality(Cache) = 1
    /\ HasPosition

\* the contract closest to the strike of the iteration's entry attempt has
\* a lot size that is not NIFTY_LOT_SIZE; c and e are the globals and the
\* observation after the iteration
LotSizeMismatch(c, e) ==
    /\ e.resolves = 1
    /\ LET data == c.instruments_data
           direction == DirectionFromBias(c.daily_bias)
           strike == calculate_itm_strike(e.spotReads[1], direction)
           option_type == IF direction = "CALL" THEN "CE" ELSE "PE"
           expiry == get_nearest_valid_expiry(data, "NIFTY")
           filtered == Filtered(data, "NIFTY", expiry, option_type)
       IN  /\ filtered # {}
           /\ data[Nearest(data, filtered, strike)].lot_size # NIFTY_LOT_SIZE

\* C30: an iteration whose entry attempt resolves to a contract of another
\* lot size gets no instrument and stops there: nothing is put in the
\* cache, enter_position is not called, no option price is fetched, nothing
\* is bought, no position is open, the count is as it was and the loop goes
\* on, so that a later iteration resolves again
C30_LotSizeMismatchAbandonsEntry ==
    [][(TickStep /\ LotSizeMismatch(config', last'))
       => /\ last'.branch = "noinstrument"
          /\ config'.instrument_lookup_cache
             = (IF last'.didReset THEN {} ELSE config.instrument_lookup_cache)
          /\ last'.entryPre = NoSnap
          /\ last'.optReads = <<>>
          /\ last'.buys = <<>>
          /\ config'.current_position = NoPosition
          /\ config'.executed_trades_count
             = (IF last'.didReset THEN 0 ELSE config.executed_trades_count)
          /\ pc' = "loop"]_vars

C30_Witness ==
    /\ last.branch = "noinstrument"
    /\ LotSizeMismatch(config, last)
    /\ config.daily_bias = "BULLISH"
    /\ Cache = {}
    /\ ~HasPosition
    /\ config.executed_trades_count = 0
    /\ pc = "loop"

\* C31: between two entries of a trading day the spot price is observed
\* outside the pivot zone.  The iteration that sells a position fetches no
\* spot price, so the iteration that follows it on the same day, whose only
\* spot price is the one it enters on, buys nothing
C31_OneEntryPerRevisit ==
    [][(TickStep /\ last.sells # <<>> /\ last.spotReads = <<>> /\ ~last'.didReset)
       => last'.buys = <<>>]_vars

\* the last iteration closed the position: one sale, one journal record
ClosedByExit ==
    /\ ~HasPosition
    /\ Len(last.sells) = 1
    /\ Len(last.journaled) = 1
    /\ last.journaled[1].exit_reason \in {"STOP_LOSS", "PROFIT_TARGET", "EOD_EXIT"}

\* C32: while the loop keeps iterating, a position that is open on a day
\* is closed on that day by one sale with reason STOP_LOSS, PROFIT_TARGET
\* or EOD_EXIT (unless the loop is stopped first), however many option
\* price fetches are unavailable.  The days are those that end within MaxDay
C32_PositionClosedSameDay ==
    \A d \in 0..(MaxDay - 1) :
        (HasPosition /\ Today = d) ~> (pc = "stopped" \/ (Today = d /\ ClosedByExit))

\* C33: an iteration that starts with no position and the count at
\* MAX_DAILY_TRADES stops at the cap: it does not fetch the opening candle,
\* the spot price or an option price and resolves no instrument
C33_CapGuardComesFirst ==
    [][(TickStep /\ ~HasPosition /\ ~last'.didReset
        /\ config.executed_trades_count >= MAX_DAILY_TRADES)
       => /\ last'.biasFetches = 0
          /\ last'.spotReads = <<>>
          /\ last'.resolves = 0
          /\ last'.optReads = <<>>]_vars

\* C35: an iteration that resets the daily state starts with no position
\* open: the position of the day before was sold and journaled
C35_ResetFindsNoPosition ==
    [][ResetStep => ~HasPosition]_vars

\* the daily state as a completed reset leaves it
FreshDay(c) ==
    /\ c.executed_trades_count = 0
    /\ c.current_position = NoPosition
    /\ c.daily_bias = "None"
    /\ c.instrument_lookup_cache = {}
    /\ c.spot_price_breaker = CircuitBreaker
    /\ c.option_price_breaker = CircuitBreaker
    /\ c.last_trading_date = Today

\* C34: on a date not yet reset, a reset that completes leaves the count 0,
\* no position, the bias unset, the cache empty and both breakers closed
\* with no failures, whatever they were, and the pivot is the one computed
\* from the candles fetched by this reset, or unset when that fails; the
\* iteration that resets goes on from that state (it waits for the bias
\* window or for a pivot)
C34_ResetStartsFresh ==
    /\ [](config.last_trading_date # Today
          => \A load \in Catalogs(Today), feed \in DailyFeeds(Today) :
                LET r == reset_daily_state(M0, load, feed)
                IN  r.e.raised = "no"
                    => /\ FreshDay(r.c)
                       /\ r.c.daily_pivot_point = fetch_and_calculate_pivot(feed)
                       /\ r.c.daily_pivot_point = None
                          \/ \E i \in DOMAIN feed.candles :
                                /\ feed.candles[i].date < Today
                                /\ r.c.daily_pivot_point
                                   = RoundDiv(feed.candles[i].high + feed.candles[i].low
                                              + feed.candles[i].close, 3))
    /\ [][(ResetStep /\ last'.raised = "no") => FreshDay(config')]_vars

\* no failure was recorded on breaker b while it was open: the count has
\* not passed the threshold, and the stamp is there when it is reached
WithinThreshold(b) ==
    /\ b.failure_count <= CIRCUIT_BREAKER_FAILURES
    /\ b.opened_at # None <=> b.failure_count = CIRCUIT_BREAKER_FAILURES

\* a step from breaker b to breaker b2 keeps the stamp of an open breaker
\* or removes it
StampKept(b, b2) == b.opened_at # None => b2.opened_at \in {b.opened_at, None}

\* C36: in the running loop no failure is recorded on an open breaker: the
\* failure count of either breaker never passes the threshold, a breaker is
\* stamped exactly when its count is at the threshold, and a step of the
\* system keeps the stamp of an open breaker or closes it, so that the
\* cooldown is never extended
C36_NoFailureOnOpenBreaker ==
    /\ [](WithinThreshold(config.spot_price_breaker)
          /\ WithinThreshold(config.option_price_breaker))
    /\ [][/\ StampKept(config.spot_price_breaker, config'.spot_price_breaker)
          /\ StampKept(config.option_price_breaker, config'.option_price_breaker)]_vars

\* the option breaker was opened in an earlier time step and the iteration
\* that manages the position has asked for the price since
C36_Witness ==
    /\ HasPosition
    /\ last.branch = "monitor"
    /\ last.optReads = <<None, None>>
    /\ config.option_price_breaker.failure_count = CIRCUIT_BREAKER_FAILURES
    /\ config.option_price_breaker.opened_at # None
    /\ config.option_price_breaker.opened_at < TimeNow

\* entry prices at both ends of the range that fetch_option_price accepts
EntryPriceSample ==
    (MIN_OPTION_PRICE..(MIN_OPTION_PRICE + 10))
    \cup ((MAX_OPTION_PRICE - 10)..MAX_OPTION_PRICE)

\* C39: the stop loss of an open position is below its entry price and its
\* profit target above it, so that no price is at or below the stop loss and
\* at or above the profit target; the two levels computed from an entry
\* price at either end of the accepted range are on either side of it too
C39_StopBelowEntryBelowTarget ==
    /\ HasPosition
       => /\ Position.stop_loss < Position.entry_price
          /\ Position.entry_price < Position.profit_target
          /\ Position.stop_loss = StopLossFor(Position.entry_price)
          /\ Position.profit_target = ProfitTargetFor(Position.entry_price)
    /\ \A option_price \in EntryPriceSample :
          /\ StopLossFor(option_price) < option_price
          /\ option_price < ProfitTargetFor(option_price)

\* a position entered at 104.00 in the iteration before
C39_Witness ==
    /\ HasPosition
    /\ last.branch = "entry"
    /\ Len(last.buys) = 1
    /\ Position.entry_price = 10400
    /\ Position.stop_loss = 9360
    /\ Position.profit_target = 11440

\* a new date begins with two trades counted, the bias and the pivot of the
\* day before, a cached contract and the option breaker still in its cooldown
C34_Witness ==
    /\ pc = "loop"
    /\ isTradingDay
    /\ config.last_trading_date \notin {Today, None}
    /\ config.executed_trades_count = MAX_DAILY_TRADES
    /\ config.daily_bias # "None"
    /\ config.daily_pivot_point # None
    /\ config.instrument_lookup_cache # {}
    /\ is_open(config.option_price_breaker).open

-----------------------------------------------------------------------------
(* The circuit breaker and the fetches, under CallSpec *)

Closed == [failure_count |-> 0, opened_at |-> None]

\* C15: once CIRCUIT_BREAKER_FAILURES record_failure calls were made in a
\* row, is_open() answers true and leaves the breaker as it is as long as
\* at most CIRCUIT_BREAKER_TIMEOUT_SEC have passed since it opened; the
\* first is_open() after that answers false and resets failure_count to 0
C15_OpenUntilCooldownElapsed ==
    IsBreaker
    => /\ config[pc].failure_count = last.streak
       /\ last.streak >= CIRCUIT_BREAKER_FAILURES => config[pc].opened_at # None
       /\ (last.branch = "record_failure" /\ last.streak >= CIRCUIT_BREAKER_FAILURES)
          => /\ config[pc].opened_at = last.now
             /\ (TimeNow - last.now <= CIRCUIT_BREAKER_TIMEOUT_SEC)
                => is_open(config[pc]).open
       /\ (last.branch = "is_open" /\ last.pre.failure_count >= CIRCUIT_BREAKER_FAILURES)
          => /\ last.open
                <=> last.now - last.pre.opened_at <= CIRCUIT_BREAKER_TIMEOUT_SEC
             /\ last.open => config[pc] = last.pre
             /\ ~last.open => config[pc] = Closed

C15_Witness ==
    /\ IsBreaker
    /\ last.branch = "is_open"
    /\ last.pre.failure_count = CIRCUIT_BREAKER_FAILURES
    /\ last.now - last.pre.opened_at = CIRCUIT_BREAKER_TIMEOUT_SEC
    /\ last.open

\* C16: after any sequence of calls opened_at is set exactly when
\* failure_count >= CIRCUIT_BREAKER_FAILURES, and one record_success()
\* leaves failure_count = 0 and opened_at unset
C16_OpenedAtIffThreshold ==
    IsBreaker
    => /\ config[pc].opened_at # None
          <=> config[pc].failure_count >= CIRCUIT_BREAKER_FAILURES
       /\ last.branch = "record_success" => config[pc] = Closed

C16_Witness ==
    /\ IsBreaker
    /\ last.branch = "record_success"
    /\ last.pre.failure_count > CIRCUIT_BREAKER_FAILURES
    /\ last.pre.opened_at # None
    /\ config[pc] = Closed

\* the last call was a fetch
IsFetch == IsBreaker /\ last.branch \in {"fetch_spot_price", "fetch_option_price"}

\* the breaker was open when the fetch was called
OpenAtCall == last.pre.opened_at # None /\ ~CooldownOver(last.pre, last.now)

\* an upstream answer the fetch accepts
Valid(x) ==
    /\ x # ERR
    /\ IF last.branch = "fetch_spot_price"
       THEN MIN_SPOT_PRICE <= x /\ x <= MAX_SPOT_PRICE
       ELSE MIN_OPTION_PRICE <= x /\ x <= MAX_OPTION_PRICE

\* C17: a fetch called while its breaker is open returns None without any
\* upstream call and leaves failure_count and opened_at as they were
C17_OpenBreakerFailsFast ==
    (IsFetch /\ OpenAtCall)
    => /\ last.result.value = None
       /\ last.result.calls = 0
       /\ last.result.recorded = <<>>
       /\ config[pc] = last.pre

C17_Witness ==
    /\ IsFetch
    /\ OpenAtCall
    /\ last.now - last.pre.opened_at = CIRCUIT_BREAKER_TIMEOUT_SEC
    /\ Valid(last.script[1])
    /\ last.result.calls = 0

\* C18: when the first k < MAX_RETRIES answers fail (an error or a value out
\* of range) and the next one is in range, the fetch returns that value
\* after exactly k+1 upstream calls, with one record_success and no
\* record_failure
C18_SuccessAfterFailures ==
    (IsFetch /\ ~OpenAtCall)
    => \A k \in 0..(MAX_RETRIES - 1) :
          ((\A j \in 1..k : ~Valid(last.script[j])) /\ Valid(last.script[k + 1]))
          => /\ last.result.value = last.script[k + 1]
             /\ last.result.calls = k + 1
             /\ last.result.recorded = <<"success">>
             /\ config[pc] = Closed

C18_Witness ==
    /\ IsFetch
    /\ last.branch = "fetch_option_price"
    /\ last.script = <<ERR, MAX_OPTION_PRICE + 1, MIN_OPTION_PRICE>>
    /\ last.pre.failure_count = CIRCUIT_BREAKER_FAILURES - 1
    /\ last.result.value = MIN_OPTION_PRICE
    /\ last.result.calls = MAX_RETRIES

\* C19: when all MAX_RETRIES answers fail, in any mix of errors and values
\* out of range, the fetch returns None after exactly MAX_RETRIES upstream
\* calls and one record_failure, which adds exactly 1 to failure_count
C19_ExhaustedRetriesRecordOneFailure ==
    (IsFetch /\ ~OpenAtCall /\ \A j \in 1..MAX_RETRIES : ~Valid(last.script[j]))
    => /\ last.result.value = None
       /\ last.result.calls = MAX_RETRIES
       /\ last.result.recorded = <<"failure">>
       /\ config[pc].failure_count
          = (IF CooldownOver(last.pre, last.now) THEN 0 ELSE last.pre.failure_count) + 1

C19_Witness ==
    /\ IsFetch
    /\ last.branch = "fetch_spot_price"
    /\ last.script = <<ERR, MIN_SPOT_PRICE - 1, MAX_SPOT_PRICE + 1>>
    /\ last.pre.failure_count = CIRCUIT_BREAKER_FAILURES - 1
    /\ config[pc].failure_count = CIRCUIT_BREAKER_FAILURES
    /\ config[pc].opened_at = last.now

\* C20: a value returned by a fetch is in the plausibility range, bounds
\* included, and is the first in-range answer; the fetch makes no upstream
\* call after it
C20_ReturnsFirstValidAnswer ==
    (IsFetch /\ last.result.value # None)
    => /\ Valid(last.result.value)
       /\ last.result.calls \in 1..MAX_RETRIES
       /\ last.result.value = last.script[last.result.calls]
       /\ \A j \in 1..(last.result.calls - 1) : ~Valid(last.script[j])

C20_Witness ==
    /\ IsFetch
    /\ last.branch = "fetch_spot_price"
    /\ last.script = <<MIN_SPOT_PRICE - 1, MAX_SPOT_PRICE, MIN_SPOT_PRICE>>
    /\ last.result.value = MAX_SPOT_PRICE
    /\ last.result.calls = 2

-----------------------------------------------------------------------------
(* The two breakers side by side, under BreakersSpec *)

\* breaker b answers is_open() with true at time now
OpenAt(b, now) == b.opened_at # None /\ ~CooldownOver(b, now)

\* C21: a spot fetch leaves failure_count and opened_at of the option
\* breaker as they were, and an option fetch those of the spot breaker; a
\* fetch whose upstream has an in-range answer returns None exactly when
\* the breaker of its own is open, whatever the state of the other breaker
C21_BreakersAreSeparate ==
    /\ (pc = "breakers" /\ last.branch = "fetch_spot_price")
       => /\ config.option_price_breaker = last.pre.option_price_breaker
          /\ (\E j \in 1..MAX_RETRIES : last.script[j] = MIN_SPOT_PRICE)
             => (last.value = None
                 <=> OpenAt(last.pre.spot_price_breaker, last.now))
    /\ (pc = "breakers" /\ last.branch = "fetch_option_price")
       => /\ config.spot_price_breaker = last.pre.spot_price_breaker
          /\ (\E j \in 1..MAX_RETRIES : last.script[j] = MIN_OPTION_PRICE)
             => (last.value = None
                 <=> OpenAt(last.pre.option_price_breaker, last.now))

C21_Witness ==
    /\ pc = "breakers"
    /\ last.branch = "fetch_option_price"
    /\ OpenAt(last.pre.spot_price_breaker, last.now)
    /\ last.pre.option_price_breaker.failure_count = CIRCUIT_BREAKER_FAILURES - 1
    /\ last.value = MIN_OPTION_PRICE
    /\ config.option_price_breaker = Closed
    /\ config.spot_price_breaker.failure_count = CIRCUIT_BREAKER_FAILURES

-----------------------------------------------------------------------------
(* The strike selection, under StrikeSpec *)

\* C37: the strike of a CALL is the largest multiple of 100 rupees that is
\* at most the spot price, and the strike of a PUT the smallest multiple of
\* 100 rupees that is at least the spot price, for spot prices with and
\* without a fraction of a rupee (the spot price is in hundredths)
C37_StrikeIsInTheMoney ==
    (pc = "strike" /\ last.branch = "calculate_itm_strike" /\ last.direction # "NONE")
    => /\ last.strike % 100 = 0
       /\ last.direction = "CALL"
          => last.strike * 100 <= last.spot /\ last.spot < (last.strike + 100) * 100
       /\ last.direction = "PUT"
          => last.strike * 100 >= last.spot /\ last.spot > (last.strike - 100) * 100

-----------------------------------------------------------------------------
(* The pivot, under PivotSpec *)

\* C38: the pivot is computed from the candle with the latest date before
\* today: it is (high + low + close) / 3 of that candle to the hundredth
\* of a rupee, exactly so when the sum divides by 3 (100, 90, 95 give 95);
\* candles dated today are not looked at, and the result is None when the
\* feed fails or has no candle dated before today
C38_PivotFromLastCompletedDay ==
    (pc = "pivot" /\ last.branch = "fetch_and_calculate_pivot")
    => LET candles == last.feed.candles
           before == {i \in DOMAIN candles : candles[i].date < Today}
       IN  IF ~last.feed.ok \/ before = {}
           THEN last.pivot = None
           ELSE \E i \in before :
                   LET sum == candles[i].high + candles[i].low + candles[i].close
                   IN  /\ \A k \in before : candles[k].date <= candles[i].date
                       /\ 3 * last.pivot - sum \in {-1, 0, 1}
                       /\ sum % 3 = 0 => 3 * last.pivot = sum
                       /\ <<candles[i].high, candles[i].low, candles[i].close>>
                             = <<10000, 9000, 9500>> => last.pivot = 9500

\* the feed lists today's candle first and the candle of yesterday last
C38_Witness ==
    /\ pc = "pivot"
    /\ last.branch = "fetch_and_calculate_pivot"
    /\ last.feed.candles = <<Candle(Today, 1860000, 1840000, 1850001),
                             Candle(Today - 2, 10000, 9000, 9501),
                             Candle(Today - 1, 10000, 9000, 9500)>>
    /\ last.pivot = 9500

-----------------------------------------------------------------------------
(* The sink and its reader, under SinkSpec *)

\* what the dashboard shows of snapshot snap
ShownTrade(snap) == last.dicts[snap.current_trade]

Consistent(snap) ==
    /\ snap.in_trade <=> ShownTrade(snap) # EmptyDict
    /\ snap.wins + snap.losses = snap.total_trades

\* C40: whatever the control loop writes to the sink and wherever it is in
\* a method when the reader asks, every snapshot that get_state has returned
\* has in_trade true exactly when its current_trade is not empty and
\* wins + losses = total_trades; its current_trade is a dict of its own, and
\* no later step changes the snapshot or that dict.  While nobody holds the
\* lock the object itself is consistent in the same sense
C40_SnapshotsAreConsistent ==
    /\ [](pc = "sink"
          => /\ \A i \in DOMAIN last.snapshots :
                   /\ Consistent(last.snapshots[i])
                   /\ last.snapshots[i].current_trade # last.state.current_trade
             /\ last.lock = Unlocked
                => /\ last.state.in_trade
                      <=> last.dicts[last.state.current_trade] # EmptyDict
                   /\ last.state.wins + last.state.losses = last.state.total_trades)
    /\ [][pc = "sink"
          => \A i \in DOMAIN last.snapshots :
                /\ last'.snapshots[i] = last.snapshots[i]
                /\ last'.dicts[last.snapshots[i].current_trade]
                   = last.dicts[last.snapshots[i].current_trade]]_vars

\* the first snapshot was taken in a trade at its entry price; the price of
\* the trade has been updated since, and the reader is waiting for the lock
\* while exit_trade has counted the trade and not yet the win
C40_Witness ==
    /\ pc = "sink"
    /\ Len(last.snapshots) = 1
    /\ last.snapshots[1].in_trade
    /\ ShownTrade(last.snapshots[1]).current_price = 10000
    /\ last.loop.at = "exit_trade.total_pnl"
    /\ last.dicts[last.state.current_trade].current_price = 11000
    /\ last.state.total_trades = 1
    /\ last.state.wins = 0
    /\ last.reader.at = "get_state.acquire"

=============================================================================
